---------------------------- MODULE Spec2Model ----------------------------
(***************************************************************************)
(* A model of the governance CI action (TykTechnologies/governance-action).*)
(* One run of the binary is a sequence of steps: main -> RunAction ->      *)
(* getConfiguration -> Validate -> (generateMockResults | readOASFile,     *)
(* AnalyzeOAS) -> processResults -> exit.  The world the run acts on is    *)
(* the process environment (env), the file system (fs), and the remote     *)
(* governance service (the response it gives to the one HTTP request).     *)
(***************************************************************************)
EXTENDS Integers, Sequences, FiniteSets, TLC

VARIABLES
    env,          \* process environment: variable name -> value ("" = unset)
    fs,           \* file system: path -> NoFile | File(lines)
    unwritable,   \* paths os.OpenFile cannot open for appending
    pc,           \* position of the run
    platform,     \* value returned by DetectCI
    config,       \* the Configuration built by getConfiguration
    oasContent,   \* document content read by readOASFile
    request,      \* the HTTP request sent (NoRequest before)
    results,      \* []LintResult handed to processResults
    response,     \* what the governance service answered (NoResponse before)
    httpRequests, \* number of HTTP requests sent
    oasLines,     \* lines loaded by processResults for snippets
    idx,          \* number of findings processResults has iterated
    errorCount,   \* processResults local
    warningCount, \* processResults local
    stdout,       \* what was printed on standard output, one entry per print call
    errLog,       \* logger.Error calls, in order
    fileOps,      \* every open/read of a file: [by, path]
    emitLog,      \* every emitter invocation: [emitter, name, value]
    prErr,        \* value returned by processResults
    runErr,       \* value returned by RunAction
    exitCode,     \* process exit code (NoExit while running)
    mockCalls,    \* calls of generateMockResults made one after another,
                  \* each with its arguments and its result
    initial,      \* the environment and the file system the run started in
    service,      \* which governance service answers: names a set of responses
    diskFull,     \* TRUE when every write to a file fails (no space left)
    ciContext,     \* the map returned by GetContext
    handles,      \* open and close events of file handles and response bodies
    runs          \* runs of the program that ended before this one

vars == <<env, fs, unwritable, pc, platform, config, oasContent, request, results, response,
          httpRequests, oasLines, idx, errorCount, warningCount, stdout,
          errLog, fileOps, emitLog, prErr, runErr, exitCode, mockCalls,
          initial, service, diskFull, ciContext, handles, runs>>

(***************************************************************************)
(* Bounds of the model.                                                    *)
(***************************************************************************)
MaxFindings == 2      \* longest findings array the service returns
MaxDocLines == 1      \* document sizes 0..MaxDocLines (plus MockDocLines)
MaxMockCalls == 2     \* calls of generateMockResults in a row
MaxRedirects == 1     \* redirects the HTTP client follows in one call
MaxRangeLine == 3     \* line numbers -1..MaxRangeLine in a finding's range
MaxSnippetLines == 2  \* document sizes 0..MaxSnippetLines for snippet rendering
MaxRuns == 2          \* runs of the program one after another on the same files

(***************************************************************************)
(* Values.                                                                 *)
(***************************************************************************)
Nil        == "<nil>"          \* Go's nil error
NoFile     == [exists |-> FALSE, lines |-> <<>>]   \* a path with no file
NoExit     == 0 - 1            \* exitCode while the process runs
NoResponse == [kind |-> "none"]
NoRequest  == [method |-> "none"]
NoContext  == [env |-> ""]
NoConfig   == [GovernanceService |-> "", GovernanceAuth |-> "", RuleID |-> "",
               APIPath |-> "", Mocked |-> ""]

SeverityError   == 0
SeverityWarning == 1
StatusOK        == 200
MockDocLines    == 12          \* the highest line a mock finding points at

EnvNames ==
    {"INPUT_GOVERNANCE_SERVICE", "GOVERNANCE_SERVICE", "GOVERNANCE_API_URL",
     "INPUT_GOVERNANCE_AUTH", "GOVERNANCE_AUTH", "GOVERNANCE_API_TOKEN",
     "INPUT_RULE_ID", "RULE_ID", "GOVERNANCE_RULE_ID",
     "INPUT_API_PATH", "API_PATH", "OAS_FILE_PATH",
     "INPUT_MOCKED", "MOCKED",
     "GITHUB_ACTIONS", "GITLAB_CI", "GITHUB_OUTPUT", "GITLAB_OUTPUT_FILE",
     "error_count", "warning_count", "total_issues"}

\* os.Getenv: an unset variable reads as the empty string
Getenv(e, name) == IF name \in DOMAIN e THEN e[name] ELSE ""

\* os.Setenv
Setenv(e, name, value) == [e EXCEPT ![name] = value]

(***************************************************************************)
(* fmt.Sprintf("%d", n) for the integers the program formats.              *)
(***************************************************************************)
Digit(d) ==
    CASE d = 0 -> "0" [] d = 1 -> "1" [] d = 2 -> "2" [] d = 3 -> "3"
      [] d = 4 -> "4" [] d = 5 -> "5" [] d = 6 -> "6" [] d = 7 -> "7"
      [] d = 8 -> "8" [] d = 9 -> "9"

RECURSIVE Digits(_)
Digits(n) == IF n < 10 THEN Digit(n) ELSE Digits(n \div 10) \o Digit(n % 10)

Itoa(n) == IF n < 0 THEN "-" \o Digits(0 - n) ELSE Digits(n)

\* fmt.Sprintf("%4d", n): right-aligned in 4 columns
Pad4(n) ==
    LET s == Itoa(n)
        w == IF n < 0
             THEN (IF n > -10 THEN 2 ELSE IF n > -100 THEN 3 ELSE 4)
             ELSE (IF n < 10 THEN 1 ELSE IF n < 100 THEN 2 ELSE IF n < 1000 THEN 3 ELSE 4)
    IN  CASE w = 1 -> "   " \o s [] w = 2 -> "  " \o s [] w = 3 -> " " \o s
          [] OTHER -> s

\* strings.Join(parts, sep)
RECURSIVE Join(_, _)
Join(parts, sep) ==
    IF parts = <<>> THEN ""
    ELSE IF Len(parts) = 1 THEN parts[1]
    ELSE parts[1] \o sep \o Join(Tail(parts), sep)

(***************************************************************************)
(* Environment Detector.                                                   *)
(***************************************************************************)
\* faulty variant: any non-empty value of an indicator counts as set
DetectCI_AnyValue(e) ==
    IF Getenv(e, "GITHUB_ACTIONS") # "" THEN "github"
    ELSE IF Getenv(e, "GITLAB_CI") # "" THEN "gitlab"
    ELSE "local"

DetectCI(e) ==
    IF Getenv(e, "GITHUB_ACTIONS") = "true" THEN "github"
    ELSE IF Getenv(e, "GITLAB_CI") = "true" THEN "gitlab"
    ELSE "local"

\* the variables GetContext reads
GitHubContextNames ==
    {"GITHUB_REPOSITORY", "GITHUB_SHA", "GITHUB_REF_NAME", "GITHUB_ACTOR",
     "GITHUB_WORKFLOW", "GITHUB_RUN_ID"}

GitLabContextNames ==
    {"CI_PROJECT_PATH", "CI_COMMIT_SHA", "CI_COMMIT_BRANCH", "GITLAB_USER_NAME",
     "CI_PIPELINE_ID", "CI_JOB_ID"}

GetContext(ci, e) ==
    CASE ci = "github" ->
           [repository |-> Getenv(e, "GITHUB_REPOSITORY"),
            commit     |-> Getenv(e, "GITHUB_SHA"),
            branch     |-> Getenv(e, "GITHUB_REF_NAME"),
            actor      |-> Getenv(e, "GITHUB_ACTOR"),
            workflow   |-> Getenv(e, "GITHUB_WORKFLOW"),
            run_id     |-> Getenv(e, "GITHUB_RUN_ID")]
      [] ci = "gitlab" ->
           [repository |-> Getenv(e, "CI_PROJECT_PATH"),
            commit     |-> Getenv(e, "CI_COMMIT_SHA"),
            branch     |-> Getenv(e, "CI_COMMIT_BRANCH"),
            actor      |-> Getenv(e, "GITLAB_USER_NAME"),
            pipeline   |-> Getenv(e, "CI_PIPELINE_ID"),
            job        |-> Getenv(e, "CI_JOB_ID")]
      [] OTHER -> [env |-> "local"]

(***************************************************************************)
(* Configuration Resolver.                                                 *)
(***************************************************************************)
\* faulty variant: a later source overrides an earlier one
Fallback_Overwrite(cur, e, name) == IF Getenv(e, name) # "" THEN Getenv(e, name) ELSE cur

\* "if config.X == "" { config.X = os.Getenv(name) }"
Fallback(cur, e, name) == IF cur = "" THEN Getenv(e, name) ELSE cur

getConfiguration(e) ==
    LET c0 == [GovernanceService |-> Getenv(e, "INPUT_GOVERNANCE_SERVICE"),
               GovernanceAuth    |-> Getenv(e, "INPUT_GOVERNANCE_AUTH"),
               RuleID            |-> Getenv(e, "INPUT_RULE_ID"),
               APIPath           |-> Getenv(e, "INPUT_API_PATH"),
               Mocked            |-> Getenv(e, "INPUT_MOCKED")]
        c1 == [GovernanceService |-> Fallback(c0.GovernanceService, e, "GOVERNANCE_SERVICE"),
               GovernanceAuth    |-> Fallback(c0.GovernanceAuth, e, "GOVERNANCE_AUTH"),
               RuleID            |-> Fallback(c0.RuleID, e, "RULE_ID"),
               APIPath           |-> Fallback(c0.APIPath, e, "API_PATH"),
               Mocked            |-> Fallback(c0.Mocked, e, "MOCKED")]
    IN        [GovernanceService |-> Fallback(c1.GovernanceService, e, "GOVERNANCE_API_URL"),
               GovernanceAuth    |-> Fallback(c1.GovernanceAuth, e, "GOVERNANCE_API_TOKEN"),
               RuleID            |-> Fallback(c1.RuleID, e, "GOVERNANCE_RULE_ID"),
               APIPath           |-> Fallback(c1.APIPath, e, "OAS_FILE_PATH"),
               Mocked            |-> c1.Mocked]

\* faulty variant: the mock scenario is not checked against the three literals
Validate_AnyScenario(c) ==
    IF c.Mocked # ""
    THEN IF c.RuleID = "" THEN "rule_id is required"
         ELSE IF c.APIPath = "" THEN "api_path is required"
         ELSE Nil
    ELSE IF c.GovernanceService = "" THEN "governance_service is required"
    ELSE IF c.GovernanceAuth = "" THEN "governance_auth is required"
    ELSE IF c.RuleID = "" THEN "rule_id is required"
    ELSE IF c.APIPath = "" THEN "api_path is required"
    ELSE Nil

\* Configuration.Validate: the error it returns, or Nil
Validate(c) ==
    IF c.Mocked # ""
    THEN IF c.Mocked # "success" /\ c.Mocked # "fail" /\ c.Mocked # "warning"
         THEN "mocked must be one of: success, fail, warning"
         ELSE IF c.RuleID = "" THEN "rule_id is required"
         ELSE IF c.APIPath = "" THEN "api_path is required"
         ELSE Nil
    ELSE IF c.GovernanceService = "" THEN "governance_service is required"
    ELSE IF c.GovernanceAuth = "" THEN "governance_auth is required"
    ELSE IF c.RuleID = "" THEN "rule_id is required"
    ELSE IF c.APIPath = "" THEN "api_path is required"
    ELSE Nil

(***************************************************************************)
(* Findings (integrations.LintResult).                                     *)
(***************************************************************************)
LintLocation(line, character) == [Line |-> line, Character |-> character]

LintRange(sl, sc, el, ec) ==
    [Start |-> LintLocation(sl, sc), End |-> LintLocation(el, ec)]

LintResult(code, path, message, severity, range, source, apiID, apiName, ruleName) ==
    [Code |-> code, Path |-> path, Message |-> message, Severity |-> severity,
     Range |-> range, Source |-> source,
     API |-> [ID |-> apiID, Name |-> apiName], Rule |-> [Name |-> ruleName]]

(***************************************************************************)
(* Mock Result Generator.                                                  *)
(***************************************************************************)
\* the five fixtures, in the order of the source
MockWarning001(ruleID) ==
    LintResult("mock-warning-001", <<"paths", "/test", "get", "responses">>,
               "Mock warning: Consider adding rate limiting headers",
               1, LintRange(10, 5, 10, 15),
               "mock-source", "mock-api-id", "Mock API", ruleID)

MockWarning002(ruleID) ==
    LintResult("mock-warning-002", <<"paths", "/test", "get", "security">>,
               "Mock warning: Consider adding authentication",
               1, LintRange(8, 3, 8, 12),
               "mock-source", "mock-api-id", "Mock API", ruleID)

MockError001(ruleID) ==
    LintResult("mock-error-001", <<"paths", "/test", "get", "responses">>,
               "Mock error: Missing required 401 response code",
               0, LintRange(10, 5, 10, 15),
               "mock-source", "mock-api-id", "Mock API", ruleID)

MockError002(ruleID) ==
    LintResult("mock-error-002", <<"paths", "/test", "get", "responses", "200">>,
               "Mock error: Missing rate limiting headers in 200 response",
               0, LintRange(12, 7, 12, 10),
               "mock-source", "mock-api-id", "Mock API", ruleID)

MockWarning003(ruleID) ==
    LintResult("mock-warning-003", <<"paths", "/test", "get", "security">>,
               "Mock warning: Consider adding authentication",
               1, LintRange(8, 3, 8, 12),
               "mock-source", "mock-api-id", "Mock API", ruleID)

\* faulty variant: the "fail" fixture lacks its second error
generateMockResults_FailShort(mockedType, ruleID) ==
    CASE mockedType = "success" -> <<>>
      [] mockedType = "warning" -> << MockWarning001(ruleID), MockWarning002(ruleID) >>
      [] mockedType = "fail" -> << MockError001(ruleID), MockWarning003(ruleID) >>
      [] OTHER -> <<>>

\* faulty variant: the "fail" fixture lists its warning first
generateMockResults_Reordered(mockedType, ruleID) ==
    CASE mockedType = "success" -> <<>>
      [] mockedType = "warning" -> << MockWarning001(ruleID), MockWarning002(ruleID) >>
      [] mockedType = "fail" ->
           << MockWarning003(ruleID), MockError001(ruleID), MockError002(ruleID) >>
      [] OTHER -> <<>>

generateMockResults(mockedType, ruleID) ==
    CASE mockedType = "success" -> <<>>
      [] mockedType = "warning" -> << MockWarning001(ruleID), MockWarning002(ruleID) >>
      [] mockedType = "fail" ->
           << MockError001(ruleID), MockError002(ruleID), MockWarning003(ruleID) >>
      [] OTHER -> <<>>

(***************************************************************************)
(* File system.  Paths are resolved by the OS against the working          *)
(* directory; fs is keyed by the resolved path.                            *)
(***************************************************************************)
Cwd == "/work"

AbsolutePaths == {"/data/openapi.yaml"}

\* filepath.IsAbs
IsAbs(path) == path \in AbsolutePaths

\* filepath.Abs for a path that is not absolute (no "." or ".." elements here)
Abs(path) == Cwd \o "/" \o path

\* how the OS resolves the name given to open(2)
OSPath(path) == IF IsAbs(path) THEN path ELSE Abs(path)

File(lines) == [exists |-> TRUE, lines |-> lines]

Exists(f, path) == OSPath(path) \in DOMAIN f /\ f[OSPath(path)].exists

\* the document of n lines
DocOf(n) == [i \in 1..n |-> "line " \o Itoa(i)]

\* readOASFile: [content, err]
readOASFile(f, path) ==
    LET p == IF ~IsAbs(path) THEN Abs(path) ELSE path
    IN  IF p \in DOMAIN f /\ f[p].exists
        THEN [content |-> f[p].lines, err |-> Nil]
        ELSE [content |-> <<>>, err |-> "failed to read file " \o p]

(***************************************************************************)
(* Analysis Client.                                                        *)
(***************************************************************************)
\* the request AnalyzeOAS builds and makeAnalysisRequest sends
AnalysisRequest(c, content, filename) ==
    [method  |-> "POST",
     url     |-> c.GovernanceService \o "/rulesets/evaluate",
     apiKey  |-> c.GovernanceAuth,
     headers |-> [h \in {"Content-Type", "X-API-Key"} |->
                    IF h = "Content-Type" THEN "application/json"
                    ELSE c.GovernanceAuth],
     ruleSetSelector |-> [id |-> c.RuleID],
     apiContent      |-> [name |-> filename, content |-> content]]

\* json.Unmarshal(body, &results) for results a []LintResult.  A body is
\* [raw, json, findings]: its text, the JSON value the text denotes ("array"
\* of finding objects, "null", "object", or "malformed" for text that is not
\* JSON) and, for an array, the findings it lists.  The JSON null value
\* unmarshals into a slice by setting it to nil, without an error.
Unmarshal(body) ==
    CASE body.json = "array" -> [results |-> body.findings, ok |-> TRUE]
      [] body.json = "null"  -> [results |-> <<>>, ok |-> TRUE]
      [] OTHER               -> [results |-> <<>>, ok |-> FALSE]

\* faulty variant: only the 5xx statuses are taken as errors
makeAnalysisRequest_ServerErrorsOnly(resp) ==
    IF resp.kind = "transport_error"
    THEN [results |-> <<>>, err |-> "failed to make request", logged |-> <<>>]
    ELSE IF resp.kind = "read_error"
    THEN [results |-> <<>>, err |-> "failed to read response body", logged |-> <<>>]
    ELSE IF resp.status >= 500
    THEN [results |-> <<>>,
          err |-> "governance service returned status " \o Itoa(resp.status)
                  \o ": " \o resp.body.raw,
          logged |-> << "Governance service returned error" >>]
    ELSE IF ~Unmarshal(resp.body).ok
    THEN [results |-> <<>>, err |-> "failed to unmarshal response", logged |-> <<>>]
    ELSE [results |-> Unmarshal(resp.body).results, err |-> Nil, logged |-> <<>>]

\* faulty variant: the status code is not checked before the body is parsed
makeAnalysisRequest_IgnoresStatus(resp) ==
    IF resp.kind = "transport_error"
    THEN [results |-> <<>>, err |-> "failed to make request", logged |-> <<>>]
    ELSE IF resp.kind = "read_error"
    THEN [results |-> <<>>, err |-> "failed to read response body", logged |-> <<>>]
    ELSE IF ~Unmarshal(resp.body).ok
    THEN [results |-> <<>>, err |-> "failed to unmarshal response", logged |-> <<>>]
    ELSE [results |-> Unmarshal(resp.body).results, err |-> Nil, logged |-> <<>>]

\* makeAnalysisRequest, from the response on: [results, err, logged]
makeAnalysisRequest(resp) ==
    IF resp.kind = "transport_error"
    THEN [results |-> <<>>, err |-> "failed to make request", logged |-> <<>>]
    ELSE IF resp.kind = "read_error"
    THEN [results |-> <<>>, err |-> "failed to read response body", logged |-> <<>>]
    ELSE IF resp.status # StatusOK
    THEN [results |-> <<>>,
          err |-> "governance service returned status " \o Itoa(resp.status)
                  \o ": " \o resp.body.raw,
          logged |-> << "Governance service returned error" >>]
    ELSE IF ~Unmarshal(resp.body).ok
    THEN [results |-> <<>>, err |-> "failed to unmarshal response", logged |-> <<>>]
    ELSE [results |-> Unmarshal(resp.body).results, err |-> Nil, logged |-> <<>>]

\* AnalyzeOAS: wraps the error of makeAnalysisRequest
AnalyzeOAS(resp) ==
    LET r == makeAnalysisRequest(resp)
    IN  IF r.err # Nil
        THEN [r EXCEPT !.err = "failed to make analysis request: " \o r.err]
        ELSE r

\* a handle opened by a function and closed by it before it returns
\* (file.Close() after the scan, defer f.Close(), defer resp.Body.Close())
OpenClose(by, handle) ==
    << [op |-> "open", by |-> by, handle |-> handle],
       [op |-> "close", by |-> by, handle |-> handle] >>

\* makeAnalysisRequest: the response body exists once Do has returned a
\* response; its Close is deferred before the body is read
BodyHandle(resp) ==
    IF resp.kind \in {"http", "read_error"}
    THEN OpenClose("makeAnalysisRequest", "response body")
    ELSE << >>

(***************************************************************************)
(* Result Processor: the pure parts.                                       *)
(***************************************************************************)
\* faulty variant: an unrecognized severity is counted as a warning
Classify_UnknownAsWarning(severity) ==
    CASE severity = SeverityError ->
           [sev |-> "ERROR", icon |-> "(x)", errors |-> 1, warnings |-> 0]
      [] OTHER ->
           [sev |-> "WARNING", icon |-> "(!)", errors |-> 0, warnings |-> 1]

\* the severity switch: label, icon and which counter is incremented.
\* The icons are the glyphs cross mark, warning sign and information source.
Classify(severity) ==
    CASE severity = SeverityError ->
           [sev |-> "ERROR", icon |-> "(x)", errors |-> 1, warnings |-> 0]
      [] severity = SeverityWarning ->
           [sev |-> "WARNING", icon |-> "(!)", errors |-> 0, warnings |-> 1]
      [] OTHER ->
           [sev |-> "INFO", icon |-> "(i)", errors |-> 0, warnings |-> 0]

\* the Printf of one finding
ReportLine(result) ==
    LET c == Classify(result.Severity)
    IN  c.icon \o " [" \o c.sev \o "] [" \o Join(result.Path, ".") \o "] "
        \o result.Rule.Name \o "\n    " \o result.Message
        \o "\n    Location: line " \o Itoa(result.Range.Start.Line)
        \o ", char " \o Itoa(result.Range.Start.Character)
        \o " - line " \o Itoa(result.Range.End.Line)
        \o ", char " \o Itoa(result.Range.End.Character)

\* faulty variant: the end line is not compared with the number of lines
HasSnippet_NoUpperBound(lines, result) ==
    /\ Len(lines) > 0
    /\ result.Range.Start.Line > 0

\* faulty variant: the start line is not compared with zero
HasSnippet_NoLowerBound(lines, result) ==
    /\ Len(lines) > 0
    /\ result.Range.End.Line <= Len(lines)

\* the condition under which the snippet block is printed
HasSnippet(lines, result) ==
    /\ Len(lines) > 0
    /\ result.Range.Start.Line > 0
    /\ result.Range.End.Line <= Len(lines)

\* oasLines[i] for a 0-based i; an index outside 0..len-1 is a run-time
\* panic of the program
IndexPanic == "panic: runtime error: index out of range"

LineAt(lines, i) == IF i \in 0..(Len(lines) - 1) THEN lines[i + 1] ELSE IndexPanic

\* the 0-based indices the snippet loop uses from index i on
RECURSIVE SnippetIndices(_, _, _)
SnippetIndices(lines, result, i) ==
    IF i < result.Range.End.Line /\ i < Len(lines)
    THEN << i >> \o SnippetIndices(lines, result, i + 1)
    ELSE <<>>

\* the snippet loop from 0-based index i on
RECURSIVE SnippetFrom(_, _, _)
SnippetFrom(lines, result, i) ==
    IF i < result.Range.End.Line /\ i < Len(lines)
    THEN << "    " \o Pad4(i + 1) \o " | " \o LineAt(lines, i) >>
         \o SnippetFrom(lines, result, i + 1)
    ELSE <<>>

\* everything printed for one finding
FindingOutput(lines, result) ==
    << ReportLine(result) >>
    \o (IF HasSnippet(lines, result)
        THEN << "    --- OAS snippet ---" >>
             \o SnippetFrom(lines, result, result.Range.Start.Line - 1)
             \o << "    -------------------" >>
        ELSE <<>>)

\* the indices of the loaded lines read while one finding is printed
SnippetAccesses(lines, result) ==
    IF HasSnippet(lines, result)
    THEN SnippetIndices(lines, result, result.Range.Start.Line - 1)
    ELSE <<>>

ReportHeader == "\n================ Governance Analysis Report ================"
ReportFooter == "===========================================================\n"

\* faulty variant: warnings fail the run too
AnalysisError_FailOnWarnings(errors, warnings) ==
    IF errors + warnings > 0
    THEN "governance analysis failed with " \o Itoa(errors) \o " errors and "
         \o Itoa(warnings) \o " warnings"
    ELSE Nil

\* the error processResults returns after emission
AnalysisError(errors, warnings) ==
    IF errors > 0
    THEN "governance analysis failed with " \o Itoa(errors) \o " errors and "
         \o Itoa(warnings) \o " warnings"
    ELSE Nil

\* the path processResults opens for snippets ("" = none)
SnippetPath(e) == Fallback(Getenv(e, "INPUT_API_PATH"), e, "API_PATH")

(***************************************************************************)
(* Output Emitter.  An emitter acts on the world                           *)
(* w = [env, fs, unwritable, diskFull, fileOps, emitLog, handles].         *)
(***************************************************************************)
\* faulty variant: the file is opened with O_TRUNC instead of O_APPEND
AppendLine_Truncates(w, by, path, line) ==
    LET p == OSPath(path)
    IN  IF p \in w.unwritable \/ p \notin DOMAIN w.fs
        THEN [w EXCEPT !.fileOps = Append(@, [by |-> by, path |-> p, ok |-> FALSE])]
        ELSE [w EXCEPT !.fs[p] = File(IF w.diskFull THEN <<>> ELSE << line >>),
                       !.fileOps = Append(@, [by |-> by, path |-> p, ok |-> TRUE]),
                       !.handles = @ \o OpenClose(by, p)]

\* faulty variant: the handle is not closed when the Fprintf fails
AppendLine_LeakOnWriteError(w, by, path, line) ==
    LET p == OSPath(path)
    IN  IF p \in w.unwritable \/ p \notin DOMAIN w.fs
        THEN [w EXCEPT !.fileOps = Append(@, [by |-> by, path |-> p, ok |-> FALSE])]
        ELSE IF w.diskFull
        THEN [w EXCEPT !.fs[p] = File(@.lines),
                       !.fileOps = Append(@, [by |-> by, path |-> p, ok |-> TRUE]),
                       !.handles = Append(@, [op |-> "open", by |-> by, handle |-> p])]
        ELSE [w EXCEPT !.fs[p] = File(@.lines \o << line >>),
                       !.fileOps = Append(@, [by |-> by, path |-> p, ok |-> TRUE]),
                       !.handles = @ \o OpenClose(by, p)]

\* os.OpenFile(path, O_APPEND|O_CREATE|O_WRONLY) and Fprintf of one line.
\* The open fails for the paths of w.unwritable; with w.diskFull the file is
\* opened (created if absent) and the Fprintf fails, its error is dropped.
\* The ok of the fileOps entry tells whether the open succeeded.
AppendLine(w, by, path, line) ==
    LET p == OSPath(path)
    IN  IF p \in w.unwritable \/ p \notin DOMAIN w.fs
        THEN [w EXCEPT !.fileOps = Append(@, [by |-> by, path |-> p, ok |-> FALSE])]
        ELSE [w EXCEPT !.fs[p] = File(IF w.diskFull THEN @.lines
                                              ELSE @.lines \o << line >>),
                       !.fileOps = Append(@, [by |-> by, path |-> p, ok |-> TRUE]),
                       !.handles = @ \o OpenClose(by, p)]

setGitHubOutput(w, name, value) ==
    LET w1 == [w EXCEPT !.emitLog = Append(@, [emitter |-> "github", name |-> name,
                                               value |-> value])]
        outputFile == Getenv(w.env, "GITHUB_OUTPUT")
    IN  IF outputFile # ""
        THEN AppendLine(w1, "setGitHubOutput", outputFile, name \o "=" \o value)
        ELSE w1

\* faulty variant: the environment is set only when the file could be opened
setGitLabOutput_EnvOnlyOnWrite(w, name, value) ==
    LET w1 == [w EXCEPT !.emitLog = Append(@, [emitter |-> "gitlab", name |-> name,
                                               value |-> value])]
        outputFile == IF Getenv(w.env, "GITLAB_OUTPUT_FILE") = ""
                      THEN "governance_output.env"
                      ELSE Getenv(w.env, "GITLAB_OUTPUT_FILE")
        w2 == AppendLine(w1, "setGitLabOutput", outputFile,
                         "export " \o name \o "=" \o value)
    IN  IF w2.fileOps[Len(w2.fileOps)].ok
        THEN [w2 EXCEPT !.env = Setenv(@, name, value)]
        ELSE w2

\* faulty variant: the emitter also exports the name of the file it wrote to
setGitLabOutput_ExportsFile(w, name, value) ==
    LET w1 == [w EXCEPT !.emitLog = Append(@, [emitter |-> "gitlab", name |-> name,
                                               value |-> value])]
        outputFile == IF Getenv(w.env, "GITLAB_OUTPUT_FILE") = ""
                      THEN "governance_output.env"
                      ELSE Getenv(w.env, "GITLAB_OUTPUT_FILE")
        w2 == AppendLine(w1, "setGitLabOutput", outputFile,
                         "export " \o name \o "=" \o value)
    IN  [w2 EXCEPT !.env = Setenv(Setenv(@, "GITLAB_OUTPUT_FILE", outputFile),
                                  name, value)]

setGitLabOutput(w, name, value) ==
    LET w1 == [w EXCEPT !.emitLog = Append(@, [emitter |-> "gitlab", name |-> name,
                                               value |-> value])]
        outputFile == IF Getenv(w.env, "GITLAB_OUTPUT_FILE") = ""
                      THEN "governance_output.env"
                      ELSE Getenv(w.env, "GITLAB_OUTPUT_FILE")
        w2 == AppendLine(w1, "setGitLabOutput", outputFile,
                         "export " \o name \o "=" \o value)
    IN  [w2 EXCEPT !.env = Setenv(@, name, value)]

\* faulty variant: the failure check comes first, a failing analysis emits nothing
EmitGitHub_SkippedOnFailure(w, errors, warnings, total) ==
    IF Getenv(w.env, "GITHUB_ACTIONS") = "true" /\ errors = 0
    THEN setGitHubOutput(
             setGitHubOutput(
                 setGitHubOutput(w, "error_count", Itoa(errors)),
                 "warning_count", Itoa(warnings)),
             "total_issues", Itoa(total))
    ELSE w

\* the GitHub block of processResults
EmitGitHub(w, errors, warnings, total) ==
    IF Getenv(w.env, "GITHUB_ACTIONS") = "true"
    THEN setGitHubOutput(
             setGitHubOutput(
                 setGitHubOutput(w, "error_count", Itoa(errors)),
                 "warning_count", Itoa(warnings)),
             "total_issues", Itoa(total))
    ELSE w

\* faulty variant: the GitLab outputs are written only when the detected
\* platform is gitlab
EmitGitLab_DetectedOnly(w, errors, warnings, total) ==
    IF DetectCI(w.env) = "gitlab"
    THEN setGitLabOutput(
             setGitLabOutput(
                 setGitLabOutput(w, "error_count", Itoa(errors)),
                 "warning_count", Itoa(warnings)),
             "total_issues", Itoa(total))
    ELSE w

\* the GitLab block of processResults
EmitGitLab(w, errors, warnings, total) ==
    IF Getenv(w.env, "GITLAB_CI") = "true"
    THEN setGitLabOutput(
             setGitLabOutput(
                 setGitLabOutput(w, "error_count", Itoa(errors)),
                 "warning_count", Itoa(warnings)),
             "total_issues", Itoa(total))
    ELSE w

World == [env |-> env, fs |-> fs, unwritable |-> unwritable, diskFull |-> diskFull,
          fileOps |-> fileOps, emitLog |-> emitLog, handles |-> handles]


(***************************************************************************)
(* The run: main, RunAction and the steps of processResults.               *)
(***************************************************************************)
\* RunAction up to getConfiguration: platform detection, the context, then
\* the configuration
RunStart ==
    /\ pc = "start"
    /\ platform' = DetectCI(env)
    /\ ciContext' = GetContext(DetectCI(env), env)
    /\ config' = getConfiguration(env)
    /\ pc' = "validate"
    /\ UNCHANGED <<mockCalls, runs, initial, service, diskFull, handles, env, fs, unwritable, oasContent, request, results, response,
                   httpRequests, oasLines, idx, errorCount, warningCount, stdout,
                   errLog, fileOps, emitLog, prErr, runErr, exitCode>>

\* faulty variant: a validation failure is logged and the run goes on
ValidateStep_Continues ==
    /\ pc = "validate"
    /\ LET err == Validate(config)
       IN  IF err # Nil
           THEN /\ errLog' = Append(errLog, "Invalid configuration")
                /\ runErr' = "invalid configuration: " \o err
           ELSE UNCHANGED <<errLog, runErr>>
    /\ pc' = "dispatch"
    /\ UNCHANGED <<mockCalls, runs, initial, service, diskFull, ciContext, handles, env, fs, unwritable, platform, config, oasContent, request,
                   results, response, httpRequests, oasLines, idx, errorCount,
                   warningCount, stdout, fileOps, emitLog, prErr, exitCode>>

\* RunAction: config.Validate()
ValidateStep ==
    /\ pc = "validate"
    /\ LET err == Validate(config)
       IN  IF err # Nil
           THEN /\ errLog' = Append(errLog, "Invalid configuration")
                /\ runErr' = "invalid configuration: " \o err
                /\ pc' = "returned"
           ELSE /\ pc' = "dispatch"
                /\ UNCHANGED <<errLog, runErr>>
    /\ UNCHANGED <<mockCalls, runs, initial, service, diskFull, ciContext, handles, env, fs, unwritable, platform, config, oasContent, request,
                   results, response, httpRequests, oasLines, idx, errorCount,
                   warningCount, stdout, fileOps, emitLog, prErr, exitCode>>

\* RunAction, mocked mode: generateMockResults
MockStep ==
    /\ pc = "dispatch"
    /\ config.Mocked # ""
    /\ results' = generateMockResults(config.Mocked, config.RuleID)
    /\ pc' = "process"
    /\ UNCHANGED <<mockCalls, runs, initial, service, diskFull, ciContext, handles, env, fs, unwritable, platform, config, oasContent, request,
                   response, httpRequests, oasLines, idx, errorCount, warningCount,
                   stdout, errLog, fileOps, emitLog, prErr, runErr, exitCode>>

\* faulty variant: the document is read for a request in mocked mode as well
ReadStep_AlsoWhenMocked ==
    /\ pc = "dispatch"
    /\ LET r == readOASFile(fs, config.APIPath)
       IN  /\ fileOps' = Append(fileOps, [by |-> "readOASFile",
                                          path |-> OSPath(config.APIPath),
                                          ok |-> r.err = Nil])
           /\ IF r.err # Nil
              THEN /\ errLog' = Append(errLog, "Failed to read OAS file")
                   /\ runErr' = "failed to read OAS file: " \o r.err
                   /\ pc' = "returned"
                   /\ UNCHANGED oasContent
              ELSE /\ oasContent' = r.content
                   /\ pc' = "analyze"
                   /\ UNCHANGED <<errLog, runErr>>
    /\ UNCHANGED <<mockCalls, runs, initial, service, diskFull, ciContext, handles, env, fs, unwritable, platform, config,
                   request, results, response, httpRequests, oasLines, idx,
                   errorCount, warningCount, stdout, emitLog, prErr, exitCode>>

\* RunAction, normal mode: readOASFile
ReadStep ==
    /\ pc = "dispatch"
    /\ config.Mocked = ""
    /\ LET r == readOASFile(fs, config.APIPath)
       IN  /\ fileOps' = Append(fileOps, [by |-> "readOASFile",
                                          path |-> OSPath(config.APIPath),
                                          ok |-> r.err = Nil])
           /\ IF r.err # Nil
              THEN /\ errLog' = Append(errLog, "Failed to read OAS file")
                   /\ runErr' = "failed to read OAS file: " \o r.err
                   /\ pc' = "returned"
                   /\ UNCHANGED oasContent
              ELSE /\ oasContent' = r.content
                   /\ pc' = "analyze"
                   /\ UNCHANGED <<errLog, runErr>>
    /\ UNCHANGED <<mockCalls, runs, initial, service, diskFull, ciContext, handles, env, fs, unwritable, platform, config, request, results,
                   response, httpRequests, oasLines, idx, errorCount, warningCount,
                   stdout, emitLog, prErr, exitCode>>

\* the findings the governance service may return
ServiceSeverities == {-1, 0, 1, 2}

ServiceFinding(severity) ==
    LintResult("owasp-rate-limit", <<"paths", "/", "get", "responses", "200">>,
               "response with code 200, must contain one of the defined headers: "
               \o "{X-RateLimit-Limit} {X-Rate-Limit-Limit} "
               \o "{RateLimit-Limit, RateLimit-Reset} {RateLimit} ",
               severity, LintRange(1, 207, 1, 212),
               "684acc5b0e08080001e72b3a", "684acc5b0e08080001e72b3a",
               "testing-rest-api-2025-05", "owasp-rate-limit")

ServiceFindings == { ServiceFinding(s) : s \in ServiceSeverities }

FindingSeqs == UNION { [1..n -> ServiceFindings] : n \in 0..MaxFindings }

\* a finding of severity Warning with the given start and end line
RangeFinding(startLine, endLine) ==
    LintResult("owasp-define-error-responses-401",
               <<"paths", "/", "get", "responses">>,
               "missing response code 401 for GET",
               SeverityWarning, LintRange(startLine, 194, endLine, 205),
               "684acc5b0e08080001e72b3a", "684acc5b0e08080001e72b3a",
               "testing-rest-api-2025-05", "owasp-define-error-responses-401")

RangeLines == (0 - 1)..MaxRangeLine

RangeFindingSeqs ==
    { << RangeFinding(sl, el) >> : sl \in RangeLines, el \in RangeLines }

\* the text of a findings array as json.NewEncoder(w).Encode writes it, the
\* keys of each map in sorted order; of each finding the text shows the
\* code, the lines and the severity
RawFinding(r) ==
    "{\"code\":\"" \o r.Code
    \o "\",\"range\":{\"end\":{\"line\":" \o Itoa(r.Range.End.Line)
    \o "},\"start\":{\"line\":" \o Itoa(r.Range.Start.Line)
    \o "}},\"severity\":" \o Itoa(r.Severity) \o "}"

RawArray(findings) ==
    "[" \o Join([i \in 1..Len(findings) |-> RawFinding(findings[i])], ",") \o "]\n"

ArrayBody(findings) ==
    [raw |-> RawArray(findings), json |-> "array", findings |-> findings]

NullBody == [raw |-> "null\n", json |-> "null", findings |-> <<>>]

\* the body the mock governance server sends with a 401
ObjectBody ==
    [raw |-> "{\"Message\":\"Missing or invalid Authorization header\","
             \o "\"Meta\":null,\"Status\":\"Error\"}\n",
     json |-> "object", findings |-> <<>>]

TextBody == [raw |-> "upstream connect error", json |-> "malformed", findings |-> <<>>]

\* the outcome of httpClient.Do: the final response, reached after hops
\* redirects the client followed (each one a further request)
HttpResponse(status, body) ==
    [kind |-> "http", status |-> status, body |-> body, hops |-> 0]

TransportError == [kind |-> "transport_error", hops |-> 0]

ReadError == [kind |-> "read_error", hops |-> 0]

\* the service redirects the request before it answers: the client has no
\* CheckRedirect and follows
Redirected ==
    { [r EXCEPT !.hops = h] :
        r \in {HttpResponse(StatusOK, ArrayBody(<< ServiceFinding(1) >>)),
               HttpResponse(401, ObjectBody), TransportError},
        h \in 1..MaxRedirects }

\* the answers of a governance service: any answer, or (service "ranges") a
\* 200 with one finding of any line range
Responses(svc) ==
    IF svc = "ranges"
    THEN { HttpResponse(StatusOK, ArrayBody(f)) : f \in RangeFindingSeqs }
    ELSE {TransportError, ReadError}
         \cup Redirected
         \cup { HttpResponse(StatusOK, ArrayBody(f)) : f \in FindingSeqs }
         \cup { HttpResponse(StatusOK, b) : b \in {NullBody, ObjectBody, TextBody} }
         \cup { HttpResponse(st, b) :
                   st \in {401, 500},
                   b \in {ObjectBody, ArrayBody(<< ServiceFinding(1) >>)} }

\* r.Header.Get(name): a header the request does not carry reads as ""
HeaderGet(req, name) == IF name \in DOMAIN req.headers THEN req.headers[name] ELSE ""

\* the tokens a request may present after "Bearer "
BearerTokens == {"", "test-token", "mock-token"}

\* strings.HasPrefix(value, "Bearer ")
HasBearerPrefix(value) == value \in { "Bearer " \o t : t \in BearerTokens }

\* the two findings the bundled mock governance server answers with
MockServerFindings == << RangeFinding(1, 1), ServiceFinding(SeverityError) >>

\* the URL the bundled mock governance server serves, as the local test
\* workflow reaches it
MockServerURL == "http://host.docker.internal:8989/api/rulesets/evaluate"

\* the bundled mock governance server: the answer to one request
MockServerHandler(req) ==
    IF req.url # MockServerURL
    THEN HttpResponse(404, [raw |-> "404 page not found\n", json |-> "malformed",
                            findings |-> <<>>])
    ELSE IF req.method = "OPTIONS"
    THEN HttpResponse(StatusOK, [raw |-> "", json |-> "malformed", findings |-> <<>>])
    ELSE IF HeaderGet(req, "Authorization") = ""
            \/ ~HasBearerPrefix(HeaderGet(req, "Authorization"))
    THEN HttpResponse(401, ObjectBody)
    ELSE HttpResponse(StatusOK, ArrayBody(MockServerFindings))

\* what the service may answer to a request
Answers(svc, req) ==
    IF svc = "mock-server" THEN { MockServerHandler(req) } ELSE Responses(svc)

\* faulty variant: a failed call is tried a second time
AnalyzeStep_RetryOnce ==
    /\ pc = "analyze"
    /\ \E resp \in Answers(service, AnalysisRequest(config, oasContent, "")) :
         LET r == AnalyzeOAS(resp)
         IN  /\ request' = AnalysisRequest(config, oasContent, "")
             /\ httpRequests' = httpRequests + 1 + resp.hops
             /\ response' = resp
             /\ handles' = handles \o BodyHandle(resp)
             /\ IF r.err # Nil /\ response.kind = "none"
                THEN /\ pc' = "analyze"
                     /\ UNCHANGED <<errLog, runErr, results>>
                ELSE IF r.err # Nil
                THEN /\ errLog' = errLog \o r.logged \o << "Failed to analyze OAS" >>
                     /\ runErr' = "failed to analyze OAS: " \o r.err
                     /\ pc' = "returned"
                     /\ UNCHANGED results
                ELSE /\ results' = r.results
                     /\ pc' = "process"
                     /\ UNCHANGED <<errLog, runErr>>
    /\ UNCHANGED <<mockCalls, runs, initial, service, diskFull, ciContext, env, fs, unwritable, platform, config,
                   oasContent, oasLines, idx, errorCount, warningCount, stdout,
                   fileOps, emitLog, prErr, exitCode>>

\* RunAction, normal mode: client.AnalyzeOAS, one request and its response.
\* RunAction passes the content and the rule id; the document name of the
\* request is left empty.
AnalyzeStep ==
    /\ pc = "analyze"
    /\ \E resp \in Answers(service, AnalysisRequest(config, oasContent, "")) :
         LET r == AnalyzeOAS(resp)
         IN  /\ request' = AnalysisRequest(config, oasContent, "")
             /\ httpRequests' = httpRequests + 1 + resp.hops
             /\ response' = resp
             /\ handles' = handles \o BodyHandle(resp)
             /\ IF r.err # Nil
                THEN /\ errLog' = errLog \o r.logged \o << "Failed to analyze OAS" >>
                     /\ runErr' = "failed to analyze OAS: " \o r.err
                     /\ pc' = "returned"
                     /\ UNCHANGED results
                ELSE /\ results' = r.results
                     /\ pc' = "process"
                     /\ UNCHANGED <<errLog, runErr>>
    /\ UNCHANGED <<mockCalls, runs, initial, service, diskFull, ciContext, env, fs, unwritable, platform, config, oasContent, oasLines, idx,
                   errorCount, warningCount, stdout, fileOps, emitLog, prErr, exitCode>>

\* faulty variant: no early return for an empty findings sequence
ProcessEnter_NoEarlyReturn ==
    /\ pc = "process"
    /\ handles' = handles \o (IF SnippetPath(env) # "" /\ Exists(fs, SnippetPath(env))
                            THEN OpenClose("processResults", OSPath(SnippetPath(env)))
                            ELSE << >>)
    /\ LET apiPath == SnippetPath(env)
       IN  IF apiPath # ""
           THEN /\ fileOps' = Append(fileOps, [by |-> "processResults",
                                               path |-> OSPath(apiPath),
                                               ok |-> Exists(fs, apiPath)])
                /\ oasLines' = IF Exists(fs, apiPath)
                               THEN fs[OSPath(apiPath)].lines ELSE <<>>
           ELSE /\ oasLines' = <<>>
                /\ UNCHANGED fileOps
    /\ stdout' = Append(stdout, ReportHeader)
    /\ errorCount' = 0
    /\ warningCount' = 0
    /\ idx' = 0
    /\ pc' = "pr_loop"
    /\ UNCHANGED <<mockCalls, runs, initial, service, diskFull, ciContext, env, fs, unwritable, platform, config, oasContent,
                   request, results, response, httpRequests, errLog, emitLog, prErr,
                   runErr, exitCode>>

\* faulty variant: a document that cannot be opened ends processResults
ProcessEnter_OpenFailureFatal ==
    /\ pc = "process"
    /\ handles' = handles \o (IF Len(results) # 0 /\ SnippetPath(env) # "" /\ Exists(fs, SnippetPath(env))
                            THEN OpenClose("processResults", OSPath(SnippetPath(env)))
                            ELSE << >>)
    /\ IF Len(results) = 0
       THEN /\ prErr' = Nil
            /\ pc' = "processed"
            /\ UNCHANGED <<oasLines, fileOps, stdout, errorCount, warningCount, idx>>
       ELSE LET apiPath == SnippetPath(env)
            IN  IF apiPath # "" /\ ~Exists(fs, apiPath)
                THEN /\ fileOps' = Append(fileOps, [by |-> "processResults",
                                                    path |-> OSPath(apiPath),
                                                    ok |-> FALSE])
                     /\ prErr' = "failed to open OAS file"
                     /\ pc' = "processed"
                     /\ UNCHANGED <<oasLines, stdout, errorCount, warningCount, idx>>
                ELSE /\ IF apiPath # ""
                        THEN /\ fileOps' = Append(fileOps, [by |-> "processResults",
                                                            path |-> OSPath(apiPath),
                                                            ok |-> TRUE])
                             /\ oasLines' = fs[OSPath(apiPath)].lines
                        ELSE /\ oasLines' = <<>>
                             /\ UNCHANGED fileOps
                     /\ stdout' = Append(stdout, ReportHeader)
                     /\ errorCount' = 0
                     /\ warningCount' = 0
                     /\ idx' = 0
                     /\ pc' = "pr_loop"
                     /\ UNCHANGED prErr
    /\ UNCHANGED <<mockCalls, runs, initial, service, diskFull, ciContext, env, fs, unwritable, platform, config,
                   oasContent, request, results, response, httpRequests, errLog,
                   emitLog, runErr, exitCode>>

\* processResults up to the loop: the empty check, then the snippet lines
\* and the report header
ProcessEnter ==
    /\ pc = "process"
    /\ handles' = handles \o (IF Len(results) # 0 /\ SnippetPath(env) # "" /\ Exists(fs, SnippetPath(env))
                            THEN OpenClose("processResults", OSPath(SnippetPath(env)))
                            ELSE << >>)
    /\ IF Len(results) = 0
       THEN /\ prErr' = Nil
            /\ pc' = "processed"
            /\ UNCHANGED <<oasLines, fileOps, stdout, errorCount, warningCount, idx>>
       ELSE /\ LET apiPath == SnippetPath(env)
               IN  IF apiPath # ""
                   THEN /\ fileOps' = Append(fileOps, [by |-> "processResults",
                                                       path |-> OSPath(apiPath),
                                                       ok |-> Exists(fs, apiPath)])
                        /\ oasLines' = IF Exists(fs, apiPath)
                                       THEN fs[OSPath(apiPath)].lines ELSE <<>>
                   ELSE /\ oasLines' = <<>>
                        /\ UNCHANGED fileOps
            /\ stdout' = Append(stdout, ReportHeader)
            /\ errorCount' = 0
            /\ warningCount' = 0
            /\ idx' = 0
            /\ pc' = "pr_loop"
            /\ UNCHANGED prErr
    /\ UNCHANGED <<mockCalls, runs, initial, service, diskFull, ciContext, env, fs, unwritable, platform, config, oasContent, request,
                   results, response, httpRequests, errLog, emitLog, runErr, exitCode>>

\* processResults: one iteration of the loop over the findings
ProcessFinding ==
    /\ pc = "pr_loop"
    /\ idx < Len(results)
    /\ LET result == results[idx + 1]
           c == Classify(result.Severity)
       IN  /\ errorCount' = errorCount + c.errors
           /\ warningCount' = warningCount + c.warnings
           /\ stdout' = stdout \o FindingOutput(oasLines, result)
    /\ idx' = idx + 1
    /\ UNCHANGED <<mockCalls, runs, initial, service, diskFull, ciContext, handles, env, fs, unwritable, pc, platform, config, oasContent, request,
                   results, response, httpRequests, oasLines, errLog, fileOps,
                   emitLog, prErr, runErr, exitCode>>

\* processResults: the loop is over, the report footer is printed
ProcessFooter ==
    /\ pc = "pr_loop"
    /\ idx = Len(results)
    /\ stdout' = Append(stdout, ReportFooter)
    /\ pc' = "pr_github"
    /\ UNCHANGED <<mockCalls, runs, initial, service, diskFull, ciContext, handles, env, fs, unwritable, platform, config, oasContent, request,
                   results, response, httpRequests, oasLines, idx, errorCount,
                   warningCount, errLog, fileOps, emitLog, prErr, runErr, exitCode>>

\* processResults: output variables for GitHub Actions
ProcessEmitGitHub ==
    /\ pc = "pr_github"
    /\ LET w == EmitGitHub(World, errorCount, warningCount, Len(results))
       IN  /\ env' = w.env
           /\ fs' = w.fs
           /\ fileOps' = w.fileOps
           /\ emitLog' = w.emitLog
           /\ handles' = w.handles
    /\ pc' = "pr_gitlab"
    /\ UNCHANGED <<mockCalls, runs, initial, service, diskFull, ciContext, unwritable, platform, config, oasContent, request, results,
                   response, httpRequests, oasLines, idx, errorCount, warningCount,
                   stdout, errLog, prErr, runErr, exitCode>>

\* processResults: output variables for GitLab CI
ProcessEmitGitLab ==
    /\ pc = "pr_gitlab"
    /\ LET w == EmitGitLab(World, errorCount, warningCount, Len(results))
       IN  /\ env' = w.env
           /\ fs' = w.fs
           /\ fileOps' = w.fileOps
           /\ emitLog' = w.emitLog
           /\ handles' = w.handles
    /\ pc' = "pr_return"
    /\ UNCHANGED <<mockCalls, runs, initial, service, diskFull, ciContext, unwritable, platform, config, oasContent, request, results,
                   response, httpRequests, oasLines, idx, errorCount, warningCount,
                   stdout, errLog, prErr, runErr, exitCode>>

\* faulty variant: a failed output write is returned as an error
ProcessReturn_FailsOnWriteError ==
    /\ pc = "pr_return"
    /\ prErr' = IF \/ \E i \in 1..Len(fileOps) :
                        /\ fileOps[i].by \in {"setGitHubOutput", "setGitLabOutput"}
                        /\ ~fileOps[i].ok
                   \/ (diskFull /\ emitLog # <<>>)
                THEN "failed to write outputs"
                ELSE AnalysisError(errorCount, warningCount)
    /\ pc' = "processed"
    /\ UNCHANGED <<mockCalls, runs, initial, service, diskFull, ciContext, handles, env, fs, unwritable, platform,
                   config, oasContent, request, results, response, httpRequests,
                   oasLines, idx, errorCount, warningCount, stdout, errLog, fileOps,
                   emitLog, runErr, exitCode>>

\* processResults: fail if there are errors
ProcessReturn ==
    /\ pc = "pr_return"
    /\ prErr' = AnalysisError(errorCount, warningCount)
    /\ pc' = "processed"
    /\ UNCHANGED <<mockCalls, runs, initial, service, diskFull, ciContext, handles, env, fs, unwritable, platform, config, oasContent, request,
                   results, response, httpRequests, oasLines, idx, errorCount,
                   warningCount, stdout, errLog, fileOps, emitLog, runErr, exitCode>>

\* faulty variant: outside a CI platform an analysis failure is not returned
RunFinish_LocalNeverFails ==
    /\ pc = "processed"
    /\ IF prErr # Nil /\ platform # "local"
       THEN /\ errLog' = Append(errLog, "Failed to process results")
            /\ runErr' = "failed to process results: " \o prErr
       ELSE /\ runErr' = Nil
            /\ UNCHANGED errLog
    /\ pc' = "returned"
    /\ UNCHANGED <<mockCalls, runs, initial, service, diskFull, ciContext, handles, env, fs,
                   unwritable, platform, config, oasContent, request, results,
                   response, httpRequests, oasLines, idx, errorCount, warningCount,
                   stdout, fileOps, emitLog, prErr, exitCode>>

\* RunAction after processResults
RunFinish ==
    /\ pc = "processed"
    /\ IF prErr # Nil
       THEN /\ errLog' = Append(errLog, "Failed to process results")
            /\ runErr' = "failed to process results: " \o prErr
       ELSE /\ runErr' = Nil
            /\ UNCHANGED errLog
    /\ pc' = "returned"
    /\ UNCHANGED <<mockCalls, runs, initial, service, diskFull, ciContext, handles, env, fs, unwritable, platform, config, oasContent, request,
                   results, response, httpRequests, oasLines, idx, errorCount,
                   warningCount, stdout, fileOps, emitLog, prErr, exitCode>>

\* the exit code main gives for the error RunAction returned
ExitCodeOf(err) == IF err # Nil THEN 1 ELSE 0

\* faulty variant: main exits without a report of its own
MainExit_Silent ==
    /\ pc = "returned"
    /\ exitCode' = ExitCodeOf(runErr)
    /\ pc' = "exit"
    /\ UNCHANGED <<mockCalls, runs, initial, service, diskFull, ciContext, handles, env, fs, unwritable, platform, config, oasContent, request,
                   results, response, httpRequests, oasLines, idx, errorCount,
                   warningCount, stdout, fileOps, emitLog, prErr, runErr, errLog>>

\* main after rootCmd.Execute()
MainExit ==
    /\ pc = "returned"
    /\ errLog' = IF runErr # Nil THEN Append(errLog, "Action failed") ELSE errLog
    /\ exitCode' = ExitCodeOf(runErr)
    /\ pc' = "exit"
    /\ UNCHANGED <<mockCalls, runs, initial, service, diskFull, ciContext, handles, env, fs, unwritable, platform, config, oasContent, request,
                   results, response, httpRequests, oasLines, idx, errorCount,
                   warningCount, stdout, fileOps, emitLog, prErr, runErr>>

Next ==
    \/ RunStart
    \/ ValidateStep
    \/ MockStep
    \/ ReadStep
    \/ AnalyzeStep
    \/ ProcessEnter
    \/ ProcessFinding
    \/ ProcessFooter
    \/ ProcessEmitGitHub
    \/ ProcessEmitGitLab
    \/ ProcessReturn
    \/ RunFinish
    \/ MainExit

(***************************************************************************)
(* Initial states: the environments, file systems the run starts in.       *)
(***************************************************************************)
\* the three naming conventions of the configuration variables
TierVars(k) ==
    CASE k = 1 -> [svc |-> "INPUT_GOVERNANCE_SERVICE", auth |-> "INPUT_GOVERNANCE_AUTH",
                   rule |-> "INPUT_RULE_ID", path |-> "INPUT_API_PATH",
                   mocked |-> "INPUT_MOCKED"]
      [] k = 2 -> [svc |-> "GOVERNANCE_SERVICE", auth |-> "GOVERNANCE_AUTH",
                   rule |-> "RULE_ID", path |-> "API_PATH", mocked |-> "MOCKED"]
      [] k = 3 -> [svc |-> "GOVERNANCE_API_URL", auth |-> "GOVERNANCE_API_TOKEN",
                   rule |-> "GOVERNANCE_RULE_ID", path |-> "OAS_FILE_PATH",
                   mocked |-> "MOCKED"]

DocPath(k) == IF k = 1 THEN "/data/openapi.yaml" ELSE "api/openapi.yaml"

OutputPaths == {"/work/gh.out", "/work/gl.out", "/work/governance_output.env"}

DocPaths == {"/data/openapi.yaml", "/work/api/openapi.yaml"}

DocSizes == (0..MaxDocLines) \cup {MockDocLines}

Documents == {NoFile} \cup { File(DocOf(n)) : n \in DocSizes }

RunEnv(k, svc, auth, rule, path, mocked, gha, glci, ghout, glout) ==
    LET t == TierVars(k)
    IN  [n \in EnvNames |->
           CASE n = t.svc            -> svc
             [] n = t.auth           -> auth
             [] n = t.rule           -> rule
             [] n = t.path           -> path
             [] n = t.mocked         -> mocked
             [] n = "GITHUB_ACTIONS" -> gha
             [] n = "GITLAB_CI"      -> glci
             [] n = "GITHUB_OUTPUT"  -> ghout
             [] n = "GITLAB_OUTPUT_FILE" -> glout
             [] OTHER                -> ""]

RunFs(k, doc, out) ==
    [p \in DocPaths \cup OutputPaths |->
       IF p \in DocPaths
       THEN (IF p = OSPath(DocPath(k)) THEN doc ELSE NoFile)
       ELSE (IF out = "present" THEN File(<< "previous=1" >>) ELSE NoFile)]

InitRun ==
    /\ mockCalls = <<>>
    /\ runs = 0
    /\ handles = <<>>
    /\ ciContext = NoContext
    /\ platform = ""
    /\ config = NoConfig
    /\ oasContent = <<>>
    /\ request = NoRequest
    /\ results = <<>>
    /\ response = NoResponse
    /\ httpRequests = 0
    /\ oasLines = <<>>
    /\ idx = 0
    /\ errorCount = 0
    /\ warningCount = 0
    /\ stdout = <<>>
    /\ errLog = <<>>
    /\ fileOps = <<>>
    /\ emitLog = <<>>
    /\ prErr = Nil
    /\ runErr = Nil
    /\ exitCode = NoExit

\* the run remembers nothing of its start; initial records it for the
\* properties, service names the answers the remote side may give
InitWorld(svc) ==
    /\ initial = [env |-> env, fs |-> fs]
    /\ service = svc
    /\ diskFull = FALSE

Init ==
    /\ pc = "start"
    /\ InitRun
    /\ \E k \in 1..3,
          creds \in BOOLEAN,
          rule \in {"", "test-rule", "other-rule"},
          hasPath \in BOOLEAN,
          mocked \in {"", "success", "warning", "fail", "bogus"},
          gha \in {"", "true"}, glci \in {"", "true"},
          ghout \in {"", "gh.out"}, glout \in {"", "gl.out"},
          doc \in Documents,
          out \in {"absent", "present", "unwritable"} :
         /\ env = RunEnv(k, IF creds THEN "http://host.docker.internal:8989/api" ELSE "",
                         IF creds THEN "test-token" ELSE "",
                         rule, IF hasPath THEN DocPath(k) ELSE "",
                         mocked, gha, glci, ghout, glout)
         /\ fs = RunFs(k, doc, out)
         /\ unwritable = IF out = "unwritable" THEN OutputPaths ELSE {}
    /\ InitWorld("any")

Spec == Init /\ [][Next]_vars


(***************************************************************************)
(* The local test workflow: the action configured with the INPUT_           *)
(* variables of the workflow, talking to the bundled mock governance       *)
(* server.                                                                 *)
(***************************************************************************)
InitLocalTest ==
    /\ pc = "start"
    /\ InitRun
    /\ \E mocked \in {"", "warning", "fail"},
          gha \in {"", "true"}, glci \in {"", "true"},
          ghout \in {"", "gh.out"},
          doc \in Documents,
          out \in {"absent", "present"} :
         /\ env = RunEnv(1, "http://host.docker.internal:8989/api", "test-token",
                         "test-rule", "/data/openapi.yaml", mocked, gha, glci,
                         ghout, "")
         /\ fs = RunFs(1, doc, out)
    /\ unwritable = {}
    /\ initial = [env |-> env, fs |-> fs]
    /\ service = "mock-server"
    /\ diskFull = FALSE

SpecLocalTest == InitLocalTest /\ [][Next]_vars

(***************************************************************************)
(* Platform context: runs under every routing, with the context variables  *)
(* of either platform set to one of two values or unset.                   *)
(***************************************************************************)
ContextSettings == {"none", "github", "gitlab", "both"}

ContextEnv(e, setting, tag) ==
    [n \in EnvNames \cup GitHubContextNames \cup GitLabContextNames |->
       IF n \in EnvNames THEN e[n]
       ELSE IF n \in GitHubContextNames /\ setting \in {"github", "both"}
       THEN n \o "-" \o tag
       ELSE IF n \in GitLabContextNames /\ setting \in {"gitlab", "both"}
       THEN n \o "-" \o tag
       ELSE ""]

InitContext ==
    /\ pc = "start"
    /\ InitRun
    /\ \E mocked \in {"", "warning", "fail", "bogus"},
          gha \in {"", "true"}, glci \in {"", "true"},
          setting \in ContextSettings, tag \in {"a", "b"} :
         env = ContextEnv(RunEnv(2, "http://host.docker.internal:8989/api",
                                 "test-token", "test-rule", DocPath(2), mocked,
                                 gha, glci, "gh.out", "gl.out"),
                          setting, tag)
    /\ fs = RunFs(2, File(DocOf(1)), "absent")
    /\ unwritable = {}
    /\ InitWorld("any")

SpecContext == InitContext /\ [][Next]_vars

(***************************************************************************)
(* Output emission: runs under every routing, with the output files        *)
(* absent, present, impossible to open, or on a full disk.                 *)
(***************************************************************************)
InitOutput ==
    /\ pc = "start"
    /\ InitRun
    /\ \E mocked \in {"", "warning", "fail"},
          gha \in {"", "true"}, glci \in {"", "true"},
          ghout \in {"", "gh.out"}, glout \in {"", "gl.out"},
          out \in {"absent", "present", "unwritable"} :
         /\ env = RunEnv(2, "http://host.docker.internal:8989/api", "test-token",
                         "test-rule", DocPath(2), mocked, gha, glci, ghout, glout)
         /\ fs = RunFs(2, File(DocOf(1)), out)
         /\ unwritable = IF out = "unwritable" THEN OutputPaths ELSE {}
    /\ initial = [env |-> env, fs |-> fs]
    /\ service = "any"
    /\ diskFull \in BOOLEAN

SpecOutput == InitOutput /\ [][Next]_vars

(***************************************************************************)
(* Platform detection: runs under any value of the two indicators.         *)
(***************************************************************************)
IndicatorValues == {"", "true", "1", "TRUE", "false"}

InitDetect ==
    /\ pc = "start"
    /\ InitRun
    /\ \E gha \in IndicatorValues, glci \in IndicatorValues,
          mocked \in {"", "warning"} :
         env = RunEnv(2, "http://host.docker.internal:8989/api", "test-token",
                      "test-rule", DocPath(2), mocked, gha, glci, "gh.out", "gl.out")
    /\ fs = RunFs(2, File(DocOf(1)), "absent")
    /\ unwritable = {}
    /\ InitWorld("any")

SpecDetect == InitDetect /\ [][Next]_vars

(***************************************************************************)
(* Runs one after another: the program is started again in the same job    *)
(* environment and on the same files, as the steps of a pipeline do that   *)
(* share an output file.                                                   *)
(***************************************************************************)
\* the environment of a run of the pipeline: mock scenario and routing
RunsEnv(mocked, gha, glci) ==
    RunEnv(2, "http://host.docker.internal:8989/api", "test-token", "test-rule",
           DocPath(2), mocked, gha, glci, "gh.out", "gl.out")

\* main is started again after the process has exited: a new process has
\* the environment of the job (not the variables the last process set for
\* itself) and finds the files as the last run left them
RunAgain ==
    /\ pc = "exit"
    /\ runs + 1 < MaxRuns
    /\ runs' = runs + 1
    /\ pc' = "start"
    /\ \E mocked \in {"", "success", "fail"} :
         env' = RunsEnv(mocked, initial.env["GITHUB_ACTIONS"], initial.env["GITLAB_CI"])
    /\ initial' = [env |-> env', fs |-> fs]
    /\ handles' = <<>>
    /\ ciContext' = NoContext
    /\ platform' = ""
    /\ config' = NoConfig
    /\ oasContent' = <<>>
    /\ request' = NoRequest
    /\ results' = <<>>
    /\ response' = NoResponse
    /\ httpRequests' = 0
    /\ oasLines' = <<>>
    /\ idx' = 0
    /\ errorCount' = 0
    /\ warningCount' = 0
    /\ stdout' = <<>>
    /\ errLog' = <<>>
    /\ fileOps' = <<>>
    /\ emitLog' = <<>>
    /\ prErr' = Nil
    /\ runErr' = Nil
    /\ exitCode' = NoExit
    /\ UNCHANGED <<mockCalls, service, diskFull, fs, unwritable>>

InitRuns ==
    /\ pc = "start"
    /\ InitRun
    /\ \E mocked \in {"", "success", "fail"}, gha \in {"", "true"}, glci \in {"", "true"} :
         env = RunsEnv(mocked, gha, glci)
    /\ fs = RunFs(2, File(DocOf(1)), "absent")
    /\ unwritable = {}
    /\ InitWorld("any")

NextRuns ==
    \/ Next
    \/ RunAgain

SpecRuns == InitRuns /\ [][NextRuns]_vars

(***************************************************************************)
(* Snippet rendering: runs whose findings carry any line range, over       *)
(* documents of any small size.                                            *)
(***************************************************************************)
SnippetDocuments ==
    {NoFile} \cup { File(DocOf(n)) : n \in (0..MaxSnippetLines) \cup {MockDocLines} }

InitSnippet ==
    /\ pc = "start"
    /\ InitRun
    /\ \E k \in 1..3, mocked \in {"", "fail"}, gha \in {"", "true"},
          doc \in SnippetDocuments :
         /\ env = RunEnv(k, "http://host.docker.internal:8989/api", "test-token",
                         "test-rule", DocPath(k), mocked, gha, "", "gh.out", "")
         /\ fs = RunFs(k, doc, "absent")
    /\ unwritable = {}
    /\ InitWorld("ranges")

SpecSnippet == InitSnippet /\ [][Next]_vars

(***************************************************************************)
(* The Configuration Resolver alone: every combination of set and unset    *)
(* configuration variables, resolved and validated.                        *)
(***************************************************************************)
\* the values a configuration variable may hold besides ""; the value names
\* the variable, so that the source of a resolved field can be told
ConfigValues(n) ==
    CASE n = "INPUT_MOCKED" -> {"success", "bogus"}
      [] n = "MOCKED"       -> {"fail", "warning", "FAIL"}
      [] OTHER              -> {"value of " \o n}

ConfigVars ==
    {"INPUT_GOVERNANCE_SERVICE", "GOVERNANCE_SERVICE", "GOVERNANCE_API_URL",
     "INPUT_GOVERNANCE_AUTH", "GOVERNANCE_AUTH", "GOVERNANCE_API_TOKEN",
     "INPUT_RULE_ID", "RULE_ID", "GOVERNANCE_RULE_ID",
     "INPUT_API_PATH", "API_PATH", "OAS_FILE_PATH",
     "INPUT_MOCKED", "MOCKED"}

InitConfig ==
    /\ pc = "start"
    /\ InitRun
    /\ \E set \in SUBSET ConfigVars :
         \E im \in ConfigValues("INPUT_MOCKED"), m \in ConfigValues("MOCKED") :
           env = [n \in EnvNames |->
                    IF n \notin set THEN ""
                    ELSE IF n = "INPUT_MOCKED" THEN im
                    ELSE IF n = "MOCKED" THEN m
                    ELSE "value of " \o n]
    /\ fs = RunFs(1, NoFile, "absent")
    /\ unwritable = {}
    /\ InitWorld("any")

NextConfig ==
    \/ RunStart
    \/ ValidateStep

SpecConfig == InitConfig /\ [][NextConfig]_vars

(***************************************************************************)
(* The Mock Result Generator alone: calls made one after another with      *)
(* any scenario and any rule id.                                           *)
(***************************************************************************)
MockScenarios == {"success", "warning", "fail", "bogus", "", "FAIL"}

MockRuleIDs == {"", "test-rule", "other-rule"}

MockCall ==
    /\ pc = "mock"
    /\ Len(mockCalls) < MaxMockCalls
    /\ \E mockedType \in MockScenarios, ruleID \in MockRuleIDs :
         mockCalls' = Append(mockCalls,
                             [mockedType |-> mockedType, ruleID |-> ruleID,
                              results |-> generateMockResults(mockedType, ruleID)])
    /\ UNCHANGED <<env, fs, unwritable, pc, platform, config, oasContent, request,
                   results, response, httpRequests, oasLines, idx, errorCount,
                   warningCount, stdout, errLog, fileOps, emitLog, prErr, runErr,
                   exitCode, initial, service, diskFull, ciContext, handles, runs>>

InitMock ==
    /\ pc = "mock"
    /\ InitRun
    /\ env = [n \in EnvNames |-> ""]
    /\ fs = RunFs(1, NoFile, "absent")
    /\ unwritable = {}
    /\ InitWorld("any")

NextMock == MockCall

SpecMock == InitMock /\ [][NextMock]_vars


(***************************************************************************)
(* Properties.                                                             *)
(***************************************************************************)
\* number of findings of a sequence with the given severity
CountSeverity(rs, severity) ==
    Cardinality({ i \in 1..Len(rs) : rs[i].Severity = severity })

\* the findings whose severity is neither Error nor Warning
OtherSeverities(rs) ==
    { i \in 1..Len(rs) : rs[i].Severity \notin {SeverityError, SeverityWarning} }

\* the calls made to one emitter, in order
EmitterCalls(emitter) == SelectSeq(emitLog, LAMBDA x : x.emitter = emitter)

\* the three calls an emitter receives for the given counts
ThreeOutputs(emitter, errors, warnings, total) ==
    << [emitter |-> emitter, name |-> "error_count", value |-> errors],
       [emitter |-> emitter, name |-> "warning_count", value |-> warnings],
       [emitter |-> emitter, name |-> "total_issues", value |-> total] >>

GitHubActive == env["GITHUB_ACTIONS"] = "true"
GitLabActive == env["GITLAB_CI"] = "true"

\* the last n entries of a sequence
LastN(q, n) == SubSeq(q, Len(q) - n + 1, Len(q))

\* C1: processResults returns a failure if and only if at least one finding
\* has severity Error (0); the failure message is "governance analysis failed
\* with {errorCount} errors and {warningCount} warnings" with the counts of
\* the findings; with no Error finding it returns success whatever the
\* number of warnings and other severities.
C1_FailsIffErrorFinding ==
    pc = "processed" =>
      /\ (prErr # Nil) <=> (CountSeverity(results, SeverityError) > 0)
      /\ prErr # Nil =>
           prErr = "governance analysis failed with "
                   \o Itoa(CountSeverity(results, SeverityError)) \o " errors and "
                   \o Itoa(CountSeverity(results, SeverityWarning)) \o " warnings"
      /\ (config.Mocked = "fail" /\ Validate(config) = Nil) =>
           prErr = "governance analysis failed with 2 errors and 1 warnings"

C1_Witness ==
    /\ pc = "processed"
    /\ config.Mocked = ""
    /\ prErr = "governance analysis failed with 1 errors and 1 warnings"

\* a failure-free return with warnings and other severities present
C1_WitnessSuccess ==
    /\ pc = "processed"
    /\ prErr = Nil
    /\ CountSeverity(results, SeverityWarning) > 0
    /\ OtherSeverities(results) # {}

\* the report line of a finding classified INFO
InfoLine(result) ==
    "(i) [INFO] [" \o Join(result.Path, ".") \o "] " \o result.Rule.Name
    \o "\n    " \o result.Message
    \o "\n    Location: line " \o Itoa(result.Range.Start.Line)
    \o ", char " \o Itoa(result.Range.Start.Character)
    \o " - line " \o Itoa(result.Range.End.Line)
    \o ", char " \o Itoa(result.Range.End.Character)

LoopDone == pc \in {"pr_github", "pr_gitlab", "pr_return"}

\* C2: once processResults has iterated a non-empty findings sequence,
\* errorCount is the number of severity-0 findings, warningCount the number
\* of severity-1 findings, every finding of another severity (negative,
\* >= 2) is reported as INFO and counted in neither, the total emitted is
\* the length of the sequence, and errorCount + warningCount <= total with
\* equality exactly when no finding has a severity outside {0, 1}.
C2_CountsMatchSeverities ==
    LoopDone =>
      /\ Len(results) > 0
      /\ idx = Len(results)
      /\ errorCount = CountSeverity(results, SeverityError)
      /\ warningCount = CountSeverity(results, SeverityWarning)
      /\ \A i \in OtherSeverities(results) :
           \E j \in 1..Len(stdout) : stdout[j] = InfoLine(results[i])
      /\ errorCount + warningCount <= Len(results)
      /\ (errorCount + warningCount = Len(results)) <=> (OtherSeverities(results) = {})
      /\ \A j \in 1..Len(emitLog) :
           emitLog[j].name = "total_issues" => emitLog[j].value = Itoa(Len(results))

C2_Witness ==
    /\ pc = "pr_return"
    /\ \E i \in 1..Len(results) : results[i].Severity = 2
    /\ \E i \in 1..Len(results) : results[i].Severity = -1
    /\ errorCount + warningCount < Len(results)
    /\ emitLog # <<>>

\* C3: with an empty findings sequence processResults returns success at
\* once, with both counters zero and nothing printed, and does not open the
\* document, whatever the document path and the environment are.
C3_EmptyFindingsOpenNothing ==
    (pc = "processed" /\ Len(results) = 0) =>
      /\ prErr = Nil
      /\ errorCount = 0
      /\ warningCount = 0
      /\ stdout = <<>>
      /\ oasLines = <<>>
      /\ \A j \in 1..Len(fileOps) : fileOps[j].by # "processResults"

C3_Witness ==
    /\ pc = "processed"
    /\ Len(results) = 0
    /\ config.Mocked = ""
    /\ SnippetPath(env) # ""
    /\ Exists(fs, SnippetPath(env))
    /\ GitHubActive

\* C4: processResults invokes the Output Emitter on every invocation, also
\* for an empty findings sequence: when it has returned, every active
\* emitter has received error_count, warning_count and total_issues with the
\* counts of the findings (0, 0, 0 for a run with zero findings).
C4_EmitterInvokedOnEveryInvocation ==
    pc = "processed" =>
      /\ GitHubActive =>
           EmitterCalls("github") =
             ThreeOutputs("github", Itoa(CountSeverity(results, SeverityError)),
                          Itoa(CountSeverity(results, SeverityWarning)),
                          Itoa(Len(results)))
      /\ GitLabActive =>
           EmitterCalls("gitlab") =
             ThreeOutputs("gitlab", Itoa(CountSeverity(results, SeverityError)),
                          Itoa(CountSeverity(results, SeverityWarning)),
                          Itoa(Len(results)))

\* the whole report of the findings, as printed with the loaded lines
RECURSIVE ReportBody(_, _)
ReportBody(lines, rs) ==
    IF rs = <<>> THEN <<>>
    ELSE FindingOutput(lines, Head(rs)) \o ReportBody(lines, Tail(rs))

\* C5: when a finding has severity Error, the complete report (header, every
\* finding, footer) is printed and the three outputs are handed to every
\* active emitter before processResults returns the failure: the failure
\* never pre-empts the emission.
C5_FailureAfterEmission ==
    prErr # Nil =>
      /\ stdout = << ReportHeader >> \o ReportBody(oasLines, results) \o << ReportFooter >>
      /\ GitHubActive =>
           EmitterCalls("github") =
             ThreeOutputs("github", Itoa(errorCount), Itoa(warningCount),
                          Itoa(Len(results)))
      /\ GitLabActive =>
           EmitterCalls("gitlab") =
             ThreeOutputs("gitlab", Itoa(errorCount), Itoa(warningCount),
                          Itoa(Len(results)))
      /\ (GitHubActive /\ env["GITHUB_OUTPUT"] = "gh.out" /\ unwritable = {}) =>
           LastN(fs["/work/gh.out"].lines, 3) =
             << "error_count=" \o Itoa(errorCount),
                "warning_count=" \o Itoa(warningCount),
                "total_issues=" \o Itoa(Len(results)) >>

C5_Witness ==
    /\ pc = "processed"
    /\ prErr # Nil
    /\ GitHubActive
    /\ GitLabActive
    /\ env["GITHUB_OUTPUT"] = "gh.out"
    /\ unwritable = {}
    /\ Len(fs["/work/gh.out"].lines) = 4

\* C6: in mock mode the outcome of the whole run depends on the scenario
\* alone, for any rule id: "fail" exits non-zero with 2 errors, 1 warning
\* and 3 issues handed to every active emitter; "warning" exits 0 with 0
\* errors and 2 warnings (2 issues); "success" exits 0 with no issue.
C6_MockOutcomeByScenario ==
    (pc = "exit" /\ Validate(config) = Nil /\ config.Mocked # "") =>
      /\ config.Mocked = "fail" =>
           /\ exitCode # 0
           /\ errorCount = 2 /\ warningCount = 1 /\ Len(results) = 3
           /\ GitHubActive => EmitterCalls("github") = ThreeOutputs("github", "2", "1", "3")
           /\ GitLabActive =>
                /\ EmitterCalls("gitlab") = ThreeOutputs("gitlab", "2", "1", "3")
                /\ env["error_count"] = "2"
                /\ env["warning_count"] = "1"
                /\ env["total_issues"] = "3"
           /\ (GitHubActive /\ env["GITHUB_OUTPUT"] = "gh.out" /\ unwritable = {}) =>
                LastN(fs["/work/gh.out"].lines, 3) =
                  << "error_count=2", "warning_count=1", "total_issues=3" >>
      /\ config.Mocked = "warning" =>
           /\ exitCode = 0
           /\ errorCount = 0 /\ warningCount = 2 /\ Len(results) = 2
           /\ GitHubActive => EmitterCalls("github") = ThreeOutputs("github", "0", "2", "2")
           /\ GitLabActive => EmitterCalls("gitlab") = ThreeOutputs("gitlab", "0", "2", "2")
      /\ config.Mocked = "success" =>
           /\ exitCode = 0
           /\ results = <<>>
           /\ stdout = <<>>

C6_Witness ==
    /\ pc = "exit"
    /\ config.Mocked = "fail"
    /\ config.RuleID = "other-rule"
    /\ exitCode = 1
    /\ GitHubActive
    /\ env["GITHUB_OUTPUT"] = "gh.out"
    /\ unwritable = {}
    /\ Len(fs["/work/gh.out"].lines) = 4
    /\ LastN(fs["/work/gh.out"].lines, 3) =
         << "error_count=2", "warning_count=1", "total_issues=3" >>

\* the codes and the severities of a findings sequence
CodesOf(rs) == [i \in 1..Len(rs) |-> rs[i].Code]
SeveritiesOf(rs) == [i \in 1..Len(rs) |-> rs[i].Severity]

\* a findings sequence without its rule names
WithoutRule(rs) == [i \in 1..Len(rs) |-> [rs[i] EXCEPT !.Rule.Name = ""]]

\* C7: each call of generateMockResults, whatever calls came before it,
\* returns for "success" the empty sequence, for "warning" exactly
\* mock-warning-001, mock-warning-002 (both Warning), for "fail" exactly
\* mock-error-001 (Error), mock-error-002 (Error), mock-warning-003
\* (Warning) in that order, and for any other scenario the empty sequence;
\* the rule id is the rule name of every finding and changes nothing else.
C7_MockFixtures ==
    \A n \in 1..Len(mockCalls) :
      LET call == mockCalls[n]
      IN  /\ call.mockedType = "success" => call.results = <<>>
          /\ call.mockedType = "warning" =>
               /\ CodesOf(call.results) = << "mock-warning-001", "mock-warning-002" >>
               /\ SeveritiesOf(call.results) = << 1, 1 >>
          /\ call.mockedType = "fail" =>
               /\ CodesOf(call.results) =
                    << "mock-error-001", "mock-error-002", "mock-warning-003" >>
               /\ SeveritiesOf(call.results) = << 0, 0, 1 >>
          /\ call.mockedType \notin {"success", "warning", "fail"} => call.results = <<>>
          /\ \A i \in 1..Len(call.results) : call.results[i].Rule.Name = call.ruleID
          /\ \A m \in 1..Len(mockCalls) :
               mockCalls[m].mockedType = call.mockedType =>
                 WithoutRule(mockCalls[m].results) = WithoutRule(call.results)

C7_Witness ==
    /\ Len(mockCalls) = 2
    /\ mockCalls[1].mockedType = "fail"
    /\ mockCalls[1].ruleID = "test-rule"
    /\ mockCalls[2].mockedType = "fail"
    /\ mockCalls[2].ruleID = "other-rule"
    /\ Len(mockCalls[2].results) = 3

\* the first non-empty value of a sequence of values, "" if there is none
RECURSIVE FirstNonEmpty(_)
FirstNonEmpty(values) ==
    IF values = <<>> THEN ""
    ELSE IF Head(values) # "" THEN Head(values)
    ELSE FirstNonEmpty(Tail(values))

\* C8: each of service URL, auth token, rule id and document path is the
\* first non-empty value among its INPUT_* variable, its canonical variable
\* and its legacy alias, in that order and whatever the other fields are;
\* the mock scenario is resolved from INPUT_MOCKED, then MOCKED, only; a
\* field with no non-empty source is the empty string.
C8_ConfigurationPrecedence ==
    pc # "start" =>
      /\ config.GovernanceService =
           FirstNonEmpty(<< env["INPUT_GOVERNANCE_SERVICE"], env["GOVERNANCE_SERVICE"],
                            env["GOVERNANCE_API_URL"] >>)
      /\ config.GovernanceAuth =
           FirstNonEmpty(<< env["INPUT_GOVERNANCE_AUTH"], env["GOVERNANCE_AUTH"],
                            env["GOVERNANCE_API_TOKEN"] >>)
      /\ config.RuleID =
           FirstNonEmpty(<< env["INPUT_RULE_ID"], env["RULE_ID"],
                            env["GOVERNANCE_RULE_ID"] >>)
      /\ config.APIPath =
           FirstNonEmpty(<< env["INPUT_API_PATH"], env["API_PATH"],
                            env["OAS_FILE_PATH"] >>)
      /\ config.Mocked = FirstNonEmpty(<< env["INPUT_MOCKED"], env["MOCKED"] >>)

C8_Witness ==
    /\ pc = "validate"
    /\ config.GovernanceService = "value of GOVERNANCE_API_URL"
    /\ config.GovernanceAuth = "value of INPUT_GOVERNANCE_AUTH"
    /\ env["GOVERNANCE_AUTH"] # ""
    /\ config.RuleID = "value of RULE_ID"
    /\ env["GOVERNANCE_RULE_ID"] # ""
    /\ config.APIPath = ""
    /\ config.Mocked = "warning"

\* the configurations the claim says are valid
ValidConfiguration(c) ==
    \/ /\ c.Mocked \in {"success", "fail", "warning"}
       /\ c.RuleID # ""
       /\ c.APIPath # ""
    \/ /\ c.Mocked = ""
       /\ c.GovernanceService # ""
       /\ c.GovernanceAuth # ""
       /\ c.RuleID # ""
       /\ c.APIPath # ""

\* C9: Validate succeeds if and only if the mock scenario is one of success,
\* fail, warning and rule id and document path are non-empty, or the mock
\* scenario is empty and service URL, token, rule id and document path are
\* all non-empty.
C9_ValidateIffRequiredFields ==
    pc \in {"dispatch", "returned"} =>
      /\ (pc = "dispatch") <=> ValidConfiguration(config)
      /\ (Validate(config) = Nil) <=> ValidConfiguration(config)
      /\ (pc = "returned") <=> (runErr # Nil)
      /\ config.Mocked \in {"bogus", "FAIL"} => pc = "returned"
      /\ (config.Mocked = "" /\ config.GovernanceService = "") => pc = "returned"
      /\ (config.Mocked = "success" /\ config.RuleID # "" /\ config.APIPath # "") =>
           pc = "dispatch"

C9_Witness ==
    /\ pc = "dispatch"
    /\ config.Mocked = "success"
    /\ config.GovernanceService = ""
    /\ config.GovernanceAuth = ""

\* a rejected unknown scenario with every other field set
C9_WitnessBogus ==
    /\ pc = "returned"
    /\ config.Mocked = "bogus"
    /\ config.GovernanceService # ""
    /\ config.GovernanceAuth # ""
    /\ config.RuleID # ""
    /\ config.APIPath # ""

\* the findings were obtained: mock mode, or the document was read and the
\* service answered 200 with a parsable body
FindingsObtained ==
    \/ config.Mocked # ""
    \/ /\ Exists(fs, config.APIPath)
       /\ response.kind = "http"
       /\ response.status = 200
       /\ Unmarshal(response.body).ok

\* C10: the run exits with code 0 if and only if the configuration
\* validates, the findings are obtained and no finding has severity Error;
\* every other run exits non-zero.
C10_ExitZeroIffClean ==
    pc = "exit" =>
      /\ exitCode \in {0, 1}
      /\ (exitCode = 0) <=>
           /\ ValidConfiguration(config)
           /\ FindingsObtained
           /\ CountSeverity(results, SeverityError) = 0

C10_Witness ==
    /\ pc = "exit"
    /\ exitCode = 0
    /\ config.Mocked = ""
    /\ CountSeverity(results, SeverityWarning) = 1
    /\ Len(results) = 2

\* a non-200 answer with a valid findings array ends the run non-zero
C10_WitnessNon200 ==
    /\ pc = "exit"
    /\ exitCode = 1
    /\ response.kind = "http"
    /\ response.status = 401
    /\ response.body.json = "array"

\* nothing was emitted: no emitter call, the output files and the process
\* environment as the run found them
NoOutputWritten ==
    /\ emitLog = <<>>
    /\ \A p \in OutputPaths : fs[p] = initial.fs[p]
    /\ env = initial.env
    /\ \A i \in 1..Len(fileOps) :
         fileOps[i].by \notin {"setGitHubOutput", "setGitLabOutput"}

\* processResults was not entered
ProcessorNotReached ==
    /\ stdout = <<>>
    /\ oasLines = <<>>
    /\ \A i \in 1..Len(fileOps) : fileOps[i].by # "processResults"
    /\ pc \in {"returned", "exit"}

\* C11: when the service answers 401 (or any status other than 200) the run
\* fails with the protocol error naming the status, exits non-zero and emits
\* nothing: no output file and no environment variable is written, and
\* processResults is never reached.
C11_Non200EmitsNothing ==
    (response.kind = "http" /\ response.status # 200) =>
      /\ runErr = "failed to analyze OAS: failed to make analysis request: "
                  \o "governance service returned status "
                  \o (IF response.status = 401 THEN "401" ELSE "500")
                  \o ": " \o response.body.raw
      /\ results = <<>>
      /\ ProcessorNotReached
      /\ NoOutputWritten
      /\ pc = "exit" => exitCode = 1

\* a 401 whose body is a findings array, on a run where both emitters are on
C11_Witness ==
    /\ pc = "exit"
    /\ exitCode = 1
    /\ response.kind = "http"
    /\ response.status = 401
    /\ response.body.json = "array"
    /\ env["GITHUB_ACTIONS"] = "true"
    /\ env["GITLAB_CI"] = "true"
    /\ env["GITHUB_OUTPUT"] = "gh.out"
    /\ unwritable = {}

\* the client failed with the given error: RunAction returned it wrapped,
\* without findings and without entering processResults
AnalysisFailure(msg) ==
    /\ runErr = "failed to analyze OAS: failed to make analysis request: " \o msg
    /\ results = <<>>
    /\ ProcessorNotReached

\* C12: the client maps each response to exactly one outcome: a network-level
\* failure is an error; a status other than 200 is an error carrying the
\* status code and the raw body, also when the body is a findings array; a
\* 200 whose body is not a JSON array of findings is an error; a 200 with an
\* array returns its findings in the received order, the empty array being a
\* success with zero findings.
C12_OneOutcomePerResponse ==
    response.kind # "none" =>
      CASE response.kind = "transport_error" ->
             AnalysisFailure("failed to make request")
        [] response.kind = "read_error" ->
             AnalysisFailure("failed to read response body")
        [] response.kind = "http" /\ response.status # 200 ->
             AnalysisFailure("governance service returned status "
                             \o Itoa(response.status) \o ": " \o response.body.raw)
        [] response.kind = "http" /\ response.status = 200
             /\ response.body.json # "array" ->
             AnalysisFailure("failed to unmarshal response")
        [] OTHER ->
             /\ results = response.body.findings
             /\ runErr \in {Nil, "failed to process results: " \o prErr}
             /\ (pc = "exit" /\ results = <<>>) => exitCode = 0

\* the one call of the client ended in an error
ClientFailed ==
    /\ response.kind # "none"
    /\ \/ response.kind \in {"transport_error", "read_error"}
       \/ /\ response.kind = "http"
          /\ (response.status # 200 \/ ~Unmarshal(response.body).ok)

\* C13 as stated: in any run at most one HTTP request is sent to the
\* governance service; after a transport failure, a timeout, a non-200
\* status or an unparsable body the run aborts without a second request.
C13_AtMostOneRequest ==
    /\ httpRequests <= 1
    /\ ClientFailed => (pc \in {"returned", "exit"} /\ httpRequests = 1)

\* C13 amended: the run calls the Analysis Client at most once and never
\* retries: after a failure of that call the run aborts.  The requests sent
\* are the one of the call and one more for each redirect the HTTP client
\* follows inside it.
C13_OneCallNoRetry ==
    /\ response.kind = "none" => httpRequests = 0
    /\ response.kind # "none" => httpRequests = 1 + response.hops
    /\ ClientFailed => (pc \in {"returned", "exit"} /\ ProcessorNotReached)

\* a run that ended after a transport failure
C13_Witness ==
    /\ pc = "exit"
    /\ response.kind = "transport_error"
    /\ httpRequests = 1
    /\ exitCode = 1

\* C14: whenever the mock scenario is non-empty and valid, the run sends no
\* HTTP request and does not read the document for a request, also when a
\* service URL and a token are configured; the findings are those of
\* generateMockResults.
C14_MockModeOffline ==
    (config.Mocked \in {"success", "warning", "fail"} /\ Validate(config) = Nil) =>
      /\ httpRequests = 0
      /\ request = NoRequest
      /\ response = NoResponse
      /\ oasContent = <<>>
      /\ \A i \in 1..Len(fileOps) : fileOps[i].by # "readOASFile"
      /\ pc \notin {"validate", "dispatch"} =>
           /\ results = generateMockResults(config.Mocked, config.RuleID)
           /\ Len(results) = (IF config.Mocked = "success" THEN 0
                              ELSE IF config.Mocked = "warning" THEN 2 ELSE 3)

\* a finished mock run that had the service and the token configured and
\* the document on disk
C14_Witness ==
    /\ pc = "exit"
    /\ config.Mocked = "warning"
    /\ config.GovernanceService # ""
    /\ config.GovernanceAuth # ""
    /\ Exists(fs, config.APIPath)
    /\ Len(results) = 2

\* the snippet block of a finding as the claim describes it: nothing unless
\* lines are loaded, startLine > 0 and endLine <= number of lines; else the
\* delimiters around the lines startLine..endLine, each with its number
SnippetExpected(lines, result) ==
    LET startLine == result.Range.Start.Line
        endLine   == result.Range.End.Line
        count     == IF endLine >= startLine THEN endLine - startLine + 1 ELSE 0
    IN  IF Len(lines) >= 1 /\ startLine > 0 /\ endLine <= Len(lines)
        THEN << "    --- OAS snippet ---" >>
             \o [j \in 1..count |->
                   "    " \o Pad4(startLine + j - 1) \o " | " \o lines[startLine + j - 1]]
             \o << "    -------------------" >>
        ELSE <<>>

\* what the loop has printed after n findings, by the claim
RECURSIVE SnippetReport(_, _, _)
SnippetReport(lines, rs, n) ==
    IF n = 0 THEN <<>>
    ELSE SnippetReport(lines, rs, n - 1)
         \o << ReportLine(rs[n]) >> \o SnippetExpected(lines, rs[n])

\* C15: the snippet block of a finding is printed if and only if lines were
\* loaded, startLine > 0 and endLine <= number of loaded lines; the block
\* holds exactly the lines startLine..endLine, each labelled with its own
\* 1-based number (a one-line document and the range 1..1 give the line
\* "   1 | <line>"); a finding whose endLine exceeds the number of loaded
\* lines prints no block.
C15_SnippetBlock ==
    pc = "pr_loop" =>
      /\ stdout = << ReportHeader >> \o SnippetReport(oasLines, results, idx)
      /\ (/\ idx = 1
          /\ oasLines = << "line 1" >>
          /\ results[1].Range.Start.Line = 1
          /\ results[1].Range.End.Line = 1) =>
           SubSeq(stdout, 3, Len(stdout)) =
             << "    --- OAS snippet ---", "       1 | line 1", "    -------------------" >>
      /\ (idx = 1 /\ results[1].Range.End.Line > Len(oasLines)) => Len(stdout) = 2

\* a two-line document and a finding over the lines 1..2: the block has both
C15_Witness ==
    /\ pc = "pr_loop"
    /\ idx = 1
    /\ Len(oasLines) = 2
    /\ results[1].Range.Start.Line = 1
    /\ results[1].Range.End.Line = 2
    /\ Len(stdout) = 6

\* a finding whose end line lies beyond the loaded lines: no block
C15_WitnessBeyond ==
    /\ pc = "pr_loop"
    /\ idx = 1
    /\ Len(oasLines) = 2
    /\ results[1].Range.Start.Line = 1
    /\ results[1].Range.End.Line = 3
    /\ Len(stdout) = 2

\* processResults tried to open the document for snippets and could not
SnippetOpenFailed ==
    \E i \in 1..Len(fileOps) :
      fileOps[i].by = "processResults" /\ ~fileOps[i].ok

\* the findings reported, counted, emitted and the value returned
ProcessOutcome ==
    [reported |-> idx, errors |-> errorCount, warnings |-> warningCount,
     github |-> EmitterCalls("github"), gitlab |-> EmitterCalls("gitlab"),
     err |-> prErr]

\* the outcome the findings alone determine
OutcomeOf(rs) ==
    LET e == CountSeverity(rs, SeverityError)
        w == CountSeverity(rs, SeverityWarning)
    IN  [reported |-> Len(rs), errors |-> e, warnings |-> w,
         github |-> IF GitHubActive
                    THEN ThreeOutputs("github", Itoa(e), Itoa(w), Itoa(Len(rs)))
                    ELSE <<>>,
         gitlab |-> IF GitLabActive
                    THEN ThreeOutputs("gitlab", Itoa(e), Itoa(w), Itoa(Len(rs)))
                    ELSE <<>>,
         err |-> IF e > 0
                 THEN "governance analysis failed with " \o Itoa(e)
                      \o " errors and " \o Itoa(w) \o " warnings"
                 ELSE Nil]

\* C16: if the document cannot be opened for snippet loading, processResults
\* still reports every finding, computes the same counts, emits the same
\* outputs and returns the same result as with the document readable: the
\* outcome is the one the findings determine, and the report is the header,
\* one entry per finding without a snippet block, and the footer.
C16_SnippetLoadFailureHarmless ==
    (pc = "processed" /\ Len(results) > 0) =>
      /\ ProcessOutcome = OutcomeOf(results)
      /\ SnippetOpenFailed =>
           /\ oasLines = <<>>
           /\ stdout = << ReportHeader >>
                       \o [i \in 1..Len(results) |-> ReportLine(results[i])]
                       \o << ReportFooter >>

\* a failing mock run whose document does not exist, with both emitters on
C16_Witness ==
    /\ pc = "processed"
    /\ SnippetOpenFailed
    /\ Len(results) = 3
    /\ prErr # Nil
    /\ GitHubActive
    /\ GitLabActive
    /\ Len(emitLog) = 6

\* the entries of fileOps made by processResults
SnippetOpens == SelectSeq(fileOps, LAMBDA x : x.by = "processResults")

\* C17: the file processResults opens for snippet lines is the document path
\* of the resolved Configuration in every configuration, also when the path
\* comes only from the legacy variable OAS_FILE_PATH: the snippet lines are
\* the lines of that document.
C17_SnippetsFromConfiguredDocument ==
    pc = "pr_loop" =>
      /\ Len(SnippetOpens) = 1
      /\ SnippetOpens[1].path = OSPath(config.APIPath)
      /\ oasLines = (IF Exists(fs, config.APIPath)
                     THEN fs[OSPath(config.APIPath)].lines ELSE <<>>)

\* the file the GitLab outputs go to
GitLabFile ==
    IF env["GITLAB_OUTPUT_FILE"] = "" THEN "/work/governance_output.env"
    ELSE "/work/" \o env["GITLAB_OUTPUT_FILE"]

\* the lines of a file that were added during the run
Added(path) ==
    SubSeq(fs[path].lines, Len(initial.fs[path].lines) + 1, Len(fs[path].lines))

\* C18: output routing is decided per indicator, not by the detected
\* platform: with GITHUB_ACTIONS and GITLAB_CI both "true" a run with
\* non-empty findings writes the GitHub outputs and the GitLab outputs in the
\* same invocation although DetectCI reports github; with neither "true" no
\* output is written.
C18_RoutingPerIndicator ==
    (pc = "processed" /\ Len(results) > 0) =>
      LET e == Itoa(CountSeverity(results, SeverityError))
          w == Itoa(CountSeverity(results, SeverityWarning))
          n == Itoa(Len(results))
      IN  /\ EmitterCalls("github") =
               (IF GitHubActive THEN ThreeOutputs("github", e, w, n) ELSE <<>>)
          /\ EmitterCalls("gitlab") =
               (IF GitLabActive THEN ThreeOutputs("gitlab", e, w, n) ELSE <<>>)
          /\ (GitHubActive /\ GitLabActive) =>
               /\ platform = "github"
               /\ Len(emitLog) = 6
               /\ (unwritable = {} /\ env["GITHUB_OUTPUT"] = "gh.out") =>
                    Added("/work/gh.out") =
                      << "error_count=" \o e, "warning_count=" \o w,
                         "total_issues=" \o n >>
               /\ unwritable = {} =>
                    Added(GitLabFile) =
                      << "export error_count=" \o e, "export warning_count=" \o w,
                         "export total_issues=" \o n >>
               /\ env["error_count"] = e
               /\ env["warning_count"] = w
               /\ env["total_issues"] = n
          /\ (~GitHubActive /\ ~GitLabActive) => NoOutputWritten

\* both indicators "true": both files were written in one run
C18_Witness ==
    /\ pc = "processed"
    /\ GitHubActive
    /\ GitLabActive
    /\ platform = "github"
    /\ unwritable = {}
    /\ env["GITHUB_OUTPUT"] = "gh.out"
    /\ env["GITLAB_OUTPUT_FILE"] = "gl.out"
    /\ Len(Added("/work/gh.out")) = 3
    /\ Len(Added("/work/gl.out")) = 3

\* neither indicator "true": findings reported, nothing written
C18_WitnessNeither ==
    /\ pc = "processed"
    /\ ~GitHubActive
    /\ ~GitLabActive
    /\ Len(results) = 3
    /\ env["GITHUB_OUTPUT"] = "gh.out"
    /\ NoOutputWritten

\* C19: DetectCI returns github when GITHUB_ACTIONS is exactly "true",
\* whatever GITLAB_CI is; otherwise gitlab when GITLAB_CI is exactly "true";
\* otherwise local.  Any other value of an indicator (empty, "1", "TRUE")
\* counts as not set.
C19_DetectCI ==
    pc # "start" =>
      LET gha  == initial.env["GITHUB_ACTIONS"]
          glci == initial.env["GITLAB_CI"]
      IN  /\ platform \in {"github", "gitlab", "local"}
          /\ (platform = "github") <=> (gha = "true")
          /\ (platform = "gitlab") <=> (gha # "true" /\ glci = "true")
          /\ (gha \in {"", "1", "TRUE"} /\ glci \in {"", "1", "TRUE"}) =>
               platform = "local"
          /\ (gha \in {"", "1", "TRUE"} /\ glci = "true") => platform = "gitlab"
          /\ platform = DetectCI(env)

\* both indicators hold a value other than "true": the platform is local
C19_Witness ==
    /\ pc = "exit"
    /\ initial.env["GITHUB_ACTIONS"] = "TRUE"
    /\ initial.env["GITLAB_CI"] = "1"
    /\ platform = "local"

\* GITHUB_ACTIONS "true" wins over GITLAB_CI "true"
C19_WitnessBoth ==
    /\ pc = "exit"
    /\ initial.env["GITHUB_ACTIONS"] = "true"
    /\ initial.env["GITLAB_CI"] = "true"
    /\ platform = "github"

\* the file operations of the GitHub emitter
GitHubWrites == SelectSeq(fileOps, LAMBDA x : x.by = "setGitHubOutput")

\* C20: when GITHUB_ACTIONS is "true" and the emission happens, exactly the
\* three lines error_count=<e>, warning_count=<w>, total_issues=<n> are
\* appended in that order to the file GITHUB_OUTPUT names, after the content
\* the file already has, the file being created if absent; when
\* GITHUB_OUTPUT is empty nothing is written and the result of the run is
\* the same.
C20_GitHubOutputAppended ==
    (pc = "processed" /\ Len(results) > 0 /\ GitHubActive) =>
      LET e == Itoa(CountSeverity(results, SeverityError))
          w == Itoa(CountSeverity(results, SeverityWarning))
          n == Itoa(Len(results))
      IN  /\ (env["GITHUB_OUTPUT"] = "gh.out" /\ unwritable = {}) =>
               /\ fs["/work/gh.out"] =
                    File(initial.fs["/work/gh.out"].lines
                         \o << "error_count=" \o e, "warning_count=" \o w,
                               "total_issues=" \o n >>)
               /\ Len(GitHubWrites) = 3
               /\ \A i \in 1..3 : GitHubWrites[i].path = "/work/gh.out"
          /\ env["GITHUB_OUTPUT"] = "" =>
               /\ GitHubWrites = <<>>
               /\ fs["/work/gh.out"] = initial.fs["/work/gh.out"]
               /\ ~GitLabActive => (fs = initial.fs /\ env = initial.env)
          /\ prErr = OutcomeOf(results).err

\* the three lines came after the line the file already had
C20_Witness ==
    /\ pc = "processed"
    /\ GitHubActive
    /\ env["GITHUB_OUTPUT"] = "gh.out"
    /\ initial.fs["/work/gh.out"] = File(<< "previous=1" >>)
    /\ fs["/work/gh.out"].lines =
         << "previous=1", "error_count=2", "warning_count=1", "total_issues=3" >>

\* the file did not exist and was created
C20_WitnessCreated ==
    /\ pc = "processed"
    /\ GitHubActive
    /\ initial.fs["/work/gh.out"] = NoFile
    /\ fs["/work/gh.out"] =
         File(<< "error_count=0", "warning_count=2", "total_issues=2" >>)

\* GITHUB_OUTPUT empty: a failing run, nothing written
C20_WitnessNoFile ==
    /\ pc = "processed"
    /\ GitHubActive
    /\ ~GitLabActive
    /\ env["GITHUB_OUTPUT"] = ""
    /\ Len(EmitterCalls("github")) = 3
    /\ prErr # Nil
    /\ fs = initial.fs

\* C21: when GITLAB_CI is "true" and the emission happens, the three lines
\* export error_count=<e>, export warning_count=<w>, export total_issues=<n>
\* are appended to the file GITLAB_OUTPUT_FILE names (governance_output.env
\* when it is empty) and the environment variables error_count,
\* warning_count, total_issues are set to the same values; the environment
\* is set also when the file cannot be opened.
C21_GitLabOutput ==
    (pc = "processed" /\ Len(results) > 0 /\ GitLabActive) =>
      LET e == Itoa(CountSeverity(results, SeverityError))
          w == Itoa(CountSeverity(results, SeverityWarning))
          n == Itoa(Len(results))
          target == IF initial.env["GITLAB_OUTPUT_FILE"] = "gl.out"
                    THEN "/work/gl.out" ELSE "/work/governance_output.env"
      IN  /\ unwritable = {} =>
               fs[target] =
                 File(initial.fs[target].lines
                      \o << "export error_count=" \o e, "export warning_count=" \o w,
                            "export total_issues=" \o n >>)
          /\ unwritable # {} => fs = initial.fs
          /\ \A p \in OutputPaths \ {target, "/work/gh.out"} : fs[p] = initial.fs[p]
          /\ env["error_count"] = e
          /\ env["warning_count"] = w
          /\ env["total_issues"] = n

\* the output file could not be opened and the environment was set
C21_Witness ==
    /\ pc = "processed"
    /\ GitLabActive
    /\ unwritable # {}
    /\ fs = initial.fs
    /\ env["error_count"] = "2"
    /\ env["warning_count"] = "1"
    /\ env["total_issues"] = "3"

\* GITLAB_OUTPUT_FILE empty: the lines went to governance_output.env
C21_WitnessDefaultFile ==
    /\ pc = "processed"
    /\ GitLabActive
    /\ env["GITLAB_OUTPUT_FILE"] = ""
    /\ fs["/work/governance_output.env"].lines =
         << "previous=1", "export error_count=0", "export warning_count=2",
            "export total_issues=2" >>

\* processResults printed its report
ReportPrinted == stdout # <<>>

\* an output write of the run failed: the open, or the write itself
OutputWriteFailed ==
    /\ emitLog # <<>>
    /\ \/ diskFull
       \/ \E i \in 1..Len(fileOps) :
            /\ fileOps[i].by \in {"setGitHubOutput", "setGitLabOutput"}
            /\ ~fileOps[i].ok

\* C22: a failure to open or to write an output file never changes the
\* result of the run: processResults returns the failure exactly when a
\* finding has severity Error, with the same message, whether the output
\* writes succeed or fail, and the exit code follows it.
C22_WriteFailuresSwallowed ==
    /\ (pc = "processed" /\ Len(results) > 0) =>
         LET e == CountSeverity(results, SeverityError)
             w == CountSeverity(results, SeverityWarning)
         IN  /\ (prErr = Nil) <=> (e = 0)
             /\ e > 0 => prErr = "governance analysis failed with " \o Itoa(e)
                                 \o " errors and " \o Itoa(w) \o " warnings"
             /\ EmitterCalls("github") = OutcomeOf(results).github
             /\ EmitterCalls("gitlab") = OutcomeOf(results).gitlab
    /\ (pc = "exit" /\ ReportPrinted) =>
         exitCode = (IF CountSeverity(results, SeverityError) > 0 THEN 1 ELSE 0)

\* every write failed on a full disk and the run succeeded
C22_Witness ==
    /\ pc = "exit"
    /\ diskFull
    /\ OutputWriteFailed
    /\ GitHubActive
    /\ GitLabActive
    /\ env["GITHUB_OUTPUT"] = "gh.out"
    /\ Len(results) = 2
    /\ exitCode = 0
    /\ fs["/work/gh.out"] = File(<<>>)

\* no output file could be opened and the run failed for its findings only
C22_WitnessUnwritable ==
    /\ pc = "exit"
    /\ unwritable # {}
    /\ OutputWriteFailed
    /\ Len(results) = 3
    /\ exitCode = 1
    /\ runErr = "failed to process results: governance analysis failed with "
                \o "2 errors and 1 warnings"

\* the environment of the run without the context variables
CoreEnv == [n \in EnvNames |-> initial.env[n]]

\* the findings the configuration, the document and the response determine
FindingsOf(c, resp) ==
    IF Validate(c) # Nil THEN <<>>
    ELSE IF c.Mocked # "" THEN generateMockResults(c.Mocked, c.RuleID)
    ELSE IF resp.kind = "http" /\ resp.status = 200 /\ Unmarshal(resp.body).ok
    THEN Unmarshal(resp.body).results
    ELSE <<>>

\* the run got its findings: mock mode, or a 200 with a parsable body
FindingsReceived(c, resp) ==
    /\ Validate(c) = Nil
    /\ \/ c.Mocked # ""
       \/ (resp.kind = "http" /\ resp.status = 200 /\ Unmarshal(resp.body).ok)

\* C23: the detected platform and its context do not influence what the run
\* does: the findings, the counts and the exit status of a finished run are
\* determined by the configuration variables, the document and the response
\* of the service alone, so two runs that differ only in the value of
\* DetectCI or GetContext end with the same findings, counts and status.
C23_PlatformHasNoEffect ==
    pc = "exit" =>
      LET c  == getConfiguration(CoreEnv)
          rs == FindingsOf(c, response)
      IN  /\ config = c
          /\ results = rs
          /\ errorCount = CountSeverity(rs, SeverityError)
          /\ warningCount = CountSeverity(rs, SeverityWarning)
          /\ exitCode = (IF FindingsReceived(c, response)
                            /\ CountSeverity(rs, SeverityError) = 0
                         THEN 0 ELSE 1)

\* a failing run on no platform, with context variables set
C23_Witness ==
    /\ pc = "exit"
    /\ platform = "local"
    /\ ciContext = [env |-> "local"]
    /\ env["GITHUB_REPOSITORY"] = "GITHUB_REPOSITORY-b"
    /\ Len(results) = 3
    /\ exitCode = 1

\* a run on GitHub whose context was read from the environment
C23_WitnessGitHub ==
    /\ pc = "exit"
    /\ platform = "github"
    /\ ciContext.repository = "GITHUB_REPOSITORY-a"
    /\ config.Mocked = ""
    /\ Len(results) = 2
    /\ exitCode = 0

\* C24: a normal-mode run configured as in the local test workflow (base URL
\* <host>:8989/api, a non-empty token) against the bundled mock governance
\* server is answered with HTTP 200 and the two canned findings of the
\* server (one Warning, one Error): the run reports them and ends with the
\* analysis failure, not with a protocol error.
C24_LocalTestAgainstMockServer ==
    (pc = "exit" /\ config.Mocked = "" /\ response.kind # "none") =>
      /\ request.url = MockServerURL
      /\ response.kind = "http"
      /\ response.status = 200
      /\ results = MockServerFindings
      /\ errorCount = 1
      /\ warningCount = 1
      /\ runErr = "failed to process results: governance analysis failed with "
                  \o "1 errors and 1 warnings"
      /\ exitCode = 1

\* readOASFile was called and failed
DocumentReadFailed ==
    /\ fileOps # <<>>
    /\ fileOps[1].by = "readOASFile"
    /\ ~fileOps[1].ok

\* readOASFile was called and returned the content
DocumentRead ==
    /\ fileOps # <<>>
    /\ fileOps[1].by = "readOASFile"
    /\ fileOps[1].ok

\* C25: the steps of a run happen in a fixed order and a failing step stops
\* all later ones.  When the validation of the configuration fails the
\* document is never read, no request is sent, no report is printed and no
\* output is emitted; when the read of the document fails in normal mode no
\* request is sent and no output is emitted.  In every state a request was
\* sent only after a successful read, a report is printed only after the
\* findings were obtained, and outputs are emitted only after the report.
C25_FailingStepStopsLaterOnes ==
    /\ (pc \notin {"start", "validate"} /\ ~ValidConfiguration(config)) =>
         /\ pc \in {"returned", "exit"}
         /\ fileOps = <<>>
         /\ httpRequests = 0
         /\ request = NoRequest
         /\ response = NoResponse
         /\ stdout = <<>>
         /\ NoOutputWritten
    /\ DocumentReadFailed =>
         /\ config.Mocked = ""
         /\ pc \in {"returned", "exit"}
         /\ Len(fileOps) = 1
         /\ httpRequests = 0
         /\ request = NoRequest
         /\ stdout = <<>>
         /\ NoOutputWritten
    /\ httpRequests > 0 => (ValidConfiguration(config) /\ DocumentRead)
    /\ stdout # <<>> =>
         /\ ValidConfiguration(config)
         /\ (config.Mocked # "" \/ (DocumentRead /\ httpRequests > 0))
    /\ ~NoOutputWritten => (stdout # <<>> /\ stdout[Len(stdout)] = ReportFooter)

C25_Witness ==
    /\ pc = "exit"
    /\ ~ValidConfiguration(config)
    /\ config.Mocked = ""
    /\ exitCode = 1

C25_WitnessReadFailure ==
    /\ pc = "exit"
    /\ DocumentReadFailed
    /\ ValidConfiguration(config)
    /\ exitCode = 1

\* the fatal condition a finished run ended with, "none" for a success
FatalCondition ==
    IF ~ValidConfiguration(config) THEN "configuration"
    ELSE IF DocumentReadFailed THEN "read"
    ELSE IF ClientFailed THEN "client"
    ELSE IF CountSeverity(results, SeverityError) > 0 THEN "analysis"
    ELSE "none"

\* the error report RunAction makes for a fatal condition
RunActionReport(condition) ==
    CASE condition = "configuration" -> "Invalid configuration"
      [] condition = "read" -> "Failed to read OAS file"
      [] condition = "client" -> "Failed to analyze OAS"
      [] condition = "analysis" -> "Failed to process results"

\* the error reports of the Analysis Client: one, for an answer with a
\* status other than 200
ClientReports ==
    IF response.kind = "http" /\ response.status # 200
    THEN << "Governance service returned error" >>
    ELSE << >>

\* C26 as stated: every fatal condition of a run (configuration error,
\* document read failure, transport or protocol failure, analysis failed)
\* produces exactly one error report on the diagnostic stream over the whole
\* run, counting the reports of the Analysis Client, of RunAction and of main.
C26_ExactlyOneErrorReport ==
    (pc = "exit" /\ FatalCondition # "none") => Len(errLog) = 1

\* C26, amended: every fatal condition is reported once by each layer that
\* handles it: once by RunAction with the message of the failed step, once
\* by main ("Action failed"), and before these once by the Analysis Client
\* when the service answered with a status other than 200.  A fatal run
\* therefore carries two or three error reports, a successful run none.
C26_OneReportPerLayer ==
    pc = "exit" =>
      IF FatalCondition = "none"
      THEN errLog = << >> /\ exitCode = 0
      ELSE /\ errLog = ClientReports
                       \o << RunActionReport(FatalCondition), "Action failed" >>
           /\ Len(errLog) \in {2, 3}
           /\ exitCode = 1

C26_Witness ==
    /\ pc = "exit"
    /\ FatalCondition = "client"
    /\ Len(errLog) = 3

C26_WitnessAnalysisFailed ==
    /\ pc = "exit"
    /\ FatalCondition = "analysis"
    /\ Len(errLog) = 2

\* the handles that are open after a sequence of open and close events
RECURSIVE OpenAfter(_)
OpenAfter(events) ==
    IF events = << >> THEN {}
    ELSE LET e == events[Len(events)]
             before == OpenAfter(SubSeq(events, 1, Len(events) - 1))
         IN  IF e.op = "open" THEN before \cup {e.handle} ELSE before \ {e.handle}

\* the handles the run has opened so far, told from the successful opens of
\* the snippet document and of the output files and from the response
OpensExpected ==
    Len(SelectSeq(fileOps, LAMBDA x : x.by # "readOASFile" /\ x.ok))
    + (IF response.kind \in {"http", "read_error"} THEN 1 ELSE 0)

\* C27: every file handle and response body opened during a run (the snippet
\* document, the GitHub output file, the GitLab output file, the response
\* body) is closed before the function that opened it returns, on every exit
\* path: between two steps of the run, and at its end, no handle is open,
\* and every successful open has its handle in the record.
C27_HandlesClosed ==
    /\ OpenAfter(handles) = {}
    /\ Len(handles) = 2 * OpensExpected
    /\ \A i \in 1..Len(handles) :
         (i % 2 = 1) =>
           /\ handles[i].op = "open"
           /\ handles[i + 1] = [handles[i] EXCEPT !.op = "close"]

\* a run on a full disk: the output files were opened, the writes failed
C27_Witness ==
    /\ pc = "exit"
    /\ diskFull
    /\ \E i \in 1..Len(handles) : handles[i].by = "setGitHubOutput"
    /\ \E i \in 1..Len(handles) : handles[i].by = "setGitLabOutput"
    /\ \E i \in 1..Len(handles) : handles[i].by = "processResults"
    /\ \E i \in 1..Len(handles) : handles[i].by = "makeAnalysisRequest"

\* a run whose response body could not be read
C27_WitnessReadError ==
    /\ pc = "exit"
    /\ response.kind = "read_error"
    /\ handles = OpenClose("makeAnalysisRequest", "response body")

\* every index the snippet loop has used lies within the loaded lines, and
\* no printed line stems from an access out of range
SnippetReadsInRange ==
    /\ \A j \in 1..idx :
         \A k \in 1..Len(SnippetAccesses(oasLines, results[j])) :
           SnippetAccesses(oasLines, results[j])[k] \in 0..(Len(oasLines) - 1)
    /\ \A k \in 1..Len(stdout) :
         \A n \in (0 - 2)..(MaxRangeLine + 1) :
           stdout[k] # "    " \o Pad4(n) \o " | " \o IndexPanic

\* the first finding has been printed and its range is reversed,
\* 0 < endLine < startLine
ReversedRangePrinted ==
    /\ pc = "pr_loop"
    /\ idx = 1
    /\ 0 < results[1].Range.End.Line
    /\ results[1].Range.End.Line < results[1].Range.Start.Line

\* the report of one finding with a snippet block that has no lines in it
EmptyBlockReport ==
    << ReportHeader, ReportLine(results[1]),
       "    --- OAS snippet ---", "    -------------------" >>

\* C28 as stated: snippet printing never reads outside the loaded lines.
\* For every range of a finding (startLine > endLine, endLine <= 0,
\* startLine <= 0 and ranges past the end of the document included) and
\* every document length, each index used to access the loaded lines lies
\* within 0..len-1; a range with 0 < endLine < startLine prints a snippet
\* block with no lines in it.
C28_ReversedRangePrintsEmptyBlock ==
    /\ SnippetReadsInRange
    /\ ReversedRangePrinted => stdout = EmptyBlockReport

\* C28, amended: snippet printing never reads outside the loaded lines: for
\* every range of a finding and every document length each index used to
\* access the loaded lines lies within 0..len-1.  A range with
\* 0 < endLine < startLine prints a snippet block with no lines in it only
\* when lines are loaded and endLine <= number of loaded lines; when no
\* lines are loaded or endLine lies past the end of the document it prints
\* no snippet block at all, only the line of the finding.
C28_SnippetIndicesInRange ==
    /\ SnippetReadsInRange
    /\ ReversedRangePrinted =>
         IF Len(oasLines) > 0 /\ results[1].Range.End.Line <= Len(oasLines)
         THEN stdout = EmptyBlockReport
         ELSE stdout = << ReportHeader, ReportLine(results[1]) >>

\* a reversed range past the end of a one-line document: no block
C28_WitnessReversedBeyond ==
    /\ pc = "pr_loop"
    /\ idx = 1
    /\ Len(oasLines) = 1
    /\ results[1].Range.Start.Line = 3
    /\ results[1].Range.End.Line = 2
    /\ Len(stdout) = 2

\* a reversed range inside a two-line document: a block with no lines
C28_Witness ==
    /\ pc = "pr_loop"
    /\ idx = 1
    /\ Len(oasLines) = 2
    /\ results[1].Range.Start.Line = 3
    /\ results[1].Range.End.Line = 1
    /\ Len(stdout) = 4

\* a start line below 1: nothing of the document is read
C28_WitnessNegativeStart ==
    /\ pc = "pr_loop"
    /\ idx = 1
    /\ Len(oasLines) = 2
    /\ results[1].Range.Start.Line = 0 - 1
    /\ results[1].Range.End.Line = 1
    /\ Len(stdout) = 2

\* a block that reads the loaded lines up to the last one
C28_WitnessLastLine ==
    /\ pc = "pr_loop"
    /\ idx = 1
    /\ Len(oasLines) = 2
    /\ SnippetAccesses(oasLines, results[1]) = << 0, 1 >>

\* the current run has finished processResults
ProcessorCompleted ==
    /\ pc \in {"processed", "returned", "exit"}
    /\ ValidConfiguration(config)
    /\ (config.Mocked # "" \/ FindingsObtained)

\* the lines that can be an entry of the given name in an output file (the
\* service returns up to MaxFindings findings, a mock scenario up to three)
EntryLines(prefix, name) ==
    { prefix \o name \o "=" \o Itoa(v) : v \in 0..(MaxFindings + 3) }

\* the last entry of the given name in a file is the given value, if the
\* file has an entry of that name at all
LatestEntryIs(lines, prefix, name, value) ==
    \A i \in 1..Len(lines) :
      (/\ lines[i] \in EntryLines(prefix, name)
       /\ \A j \in (i + 1)..Len(lines) : lines[j] \notin EntryLines(prefix, name))
      => lines[i] = prefix \o name \o "=" \o Itoa(value)

\* the latest entries of a file are the counts of the findings rs
LatestCountsAre(path, prefix, rs) ==
    /\ LatestEntryIs(fs[path].lines, prefix, "error_count",
                     CountSeverity(rs, SeverityError))
    /\ LatestEntryIs(fs[path].lines, prefix, "warning_count",
                     CountSeverity(rs, SeverityWarning))
    /\ LatestEntryIs(fs[path].lines, prefix, "total_issues", Len(rs))

\* C29: after any sequence of runs that share the same output file
\* (GITHUB_OUTPUT or the GitLab output file) the last error_count,
\* warning_count and total_issues entries in the file are the counts of the
\* most recent run that completed the Result Processor; no run leaves the
\* counts of an earlier run as the latest entries.
C29_LatestEntriesOfLastRun ==
    ProcessorCompleted =>
      /\ GitHubActive => LatestCountsAre("/work/gh.out", "", results)
      /\ GitLabActive => LatestCountsAre("/work/gl.out", "export ", results)

\* the variables the GitLab emitter sets in the process environment
OutputVariables == {"error_count", "warning_count", "total_issues"}

\* C30: the writes of the GitLab emitter to the process environment touch
\* only the variables error_count, warning_count and total_issues.  Every
\* variable read by the Configuration Resolver, by platform detection and by
\* output routing is unchanged by a run, so resolving the configuration,
\* detecting the platform and routing the outputs again after the run give
\* what they gave at its start.
C30_EnvironmentFrame ==
    /\ DOMAIN env = DOMAIN initial.env
    /\ \A n \in DOMAIN env \ OutputVariables : env[n] = initial.env[n]
    /\ getConfiguration(env) = getConfiguration(initial.env)
    /\ DetectCI(env) = DetectCI(initial.env)
    /\ SnippetPath(env) = SnippetPath(initial.env)
    /\ pc # "start" => config = getConfiguration(env)
    /\ \A n \in OutputVariables :
         env[n] # initial.env[n] =>
           \E i \in 1..Len(emitLog) :
             /\ emitLog[i].emitter = "gitlab"
             /\ emitLog[i].name = n
             /\ emitLog[i].value = env[n]

\* the GitLab emitter has set the three variables, the output file variable
\* was unset and stays so
C30_Witness ==
    /\ pc = "exit"
    /\ initial.env["GITLAB_OUTPUT_FILE"] = ""
    /\ \A n \in OutputVariables : env[n] # initial.env[n]
    /\ Len(EmitterCalls("gitlab")) = 3

=============================================================================
